---- MODULE Spec2Model ----
(***************************************************************************)
(* Rich-text rendering pipeline of the terminal client                     *)
(* (src/src/adapters/tui/md.rs): the Word-Wrap Engine and Structure Repair.*)
(*                                                                         *)
(* Text is a sequence of one-character strings.  Two characters that the   *)
(* module language cannot write stand for their originals: BULLET for      *)
(* U+2022 and WIDE for a character of display width 2.                     *)
(***************************************************************************)
EXTENDS Integers, Sequences, FiniteSets, TLC

VARIABLES
    lines,          \* wrap_markdown_lines: the argument Vec<MarkdownLine>
    width,          \* wrap_markdown_lines: the argument width (u16)
    idx,            \* wrap_markdown_lines: number of lines the for loop has taken
    wrapped_lines,  \* wrap_markdown_lines: result of the latest wrap_single_line
    wrapped,        \* wrap_markdown_lines: the accumulated result
    tag,            \* document tree: element name of every node
    parent,         \* document tree: parent of every node (0 = the body)
    children,       \* document tree: ordered children of the body (0) and of every node
    fixes_needed,   \* fix_nested_lists: collected (list_node, li_node) pairs
    pc,             \* fix_nested_lists: position in the function
    calls,          \* number of completed fix_nested_lists calls on this document
    original,       \* the tree handed to the first call
    repaired,       \* the tree returned by the first call
    markdown,       \* replace_markdown_images: the argument text
    chars,          \* replace_markdown_images: characters the iterator has consumed
    result,         \* replace_markdown_images: the text built so far
    html,           \* html_to_markdown: the argument hypertext
    stage,          \* html_to_markdown: position in the function
    pre_wrapped,    \* html_to_markdown: result of wrap_pre_with_code
    fixed_html,     \* html_to_markdown: result of fix_nested_lists
    select_result,  \* fix_nested_lists: outcome of document.select
    convert_result, \* html_to_markdown: outcome of converter.convert
    returned,       \* html_to_markdown: the returned text
    events,         \* parse_markdown_to_marked_lines: the events of the parser
    taken,          \* parse_markdown_to_marked_lines: events the for loop has taken
    parse_width,    \* parse_markdown_to_marked_lines: the argument width
    marked_lines,   \* parse_markdown_to_marked_lines: the vector lines
    current_line_spans,
    in_code_block,
    list_stack,
    emphasis_stack,
    link_destination,
    parse_done,     \* parse_markdown_to_marked_lines: the function has returned
    phase,          \* run_tui: position in the main loop
    frame_width,    \* width of frame.area()
    filtered_tasks, \* App: the tasks of the list
    selected,       \* App: task_list_state.selected()
    current_task,
    task_comments,
    needs_task_reload,
    focused_pane,
    fullscreen_pane,
    cached_description_lines,
    cached_comments_lines

vars == <<lines, width, idx, wrapped_lines, wrapped,
          tag, parent, children, fixes_needed, pc, calls, original, repaired,
          markdown, chars, result,
          html, stage, pre_wrapped, fixed_html, select_result, convert_result,
          returned,
          events, taken, parse_width, marked_lines, current_line_spans,
          in_code_block, list_stack, emphasis_stack, link_destination, parse_done,
          phase, frame_width, filtered_tasks, selected, current_task, task_comments,
          needs_task_reload, focused_pane, fullscreen_pane,
          cached_description_lines, cached_comments_lines>>

wrapVars == <<lines, width, idx, wrapped_lines, wrapped>>
repairVars == <<tag, parent, children, fixes_needed, pc, calls, original, repaired>>
imageVars == <<markdown, chars, result>>
convertVars == <<html, stage, pre_wrapped, fixed_html, select_result, convert_result,
                 returned>>
parseVars == <<events, taken, parse_width, marked_lines, current_line_spans,
               in_code_block, list_stack, emphasis_stack, link_destination, parse_done>>
appVars == <<phase, frame_width, filtered_tasks, selected, current_task, task_comments,
             needs_task_reload, focused_pane, fullscreen_pane,
             cached_description_lines, cached_comments_lines>>

\* the variables each part of the pipeline leaves alone
notWrapVars == <<repairVars, imageVars, convertVars, parseVars, appVars>>
notRepairVars == <<wrapVars, imageVars, convertVars, parseVars, appVars>>
notImageVars == <<wrapVars, repairVars, convertVars, parseVars, appVars>>
notConvertVars == <<wrapVars, repairVars, imageVars, parseVars, appVars>>
notParseVars == <<wrapVars, repairVars, imageVars, convertVars, appVars>>
notAppVars == <<wrapVars, repairVars, imageVars, convertVars, parseVars>>

\* a part of the pipeline that is not running
WrapIdle ==
    /\ lines = <<>>
    /\ width = 0
    /\ idx = 0
    /\ wrapped_lines = <<>>
    /\ wrapped = <<>>

RepairIdle ==
    /\ tag = <<>>
    /\ parent = <<>>
    /\ children = <<>>
    /\ fixes_needed = <<>>
    /\ pc = "none"
    /\ calls = 0
    /\ original = <<>>
    /\ repaired = <<>>

ImagesIdle ==
    /\ markdown = <<>>
    /\ chars = 0
    /\ result = <<>>

ConvertIdle ==
    /\ html = <<>>
    /\ stage = "none"
    /\ pre_wrapped = <<>>
    /\ fixed_html = <<>>
    /\ select_result = "none"
    /\ convert_result = "none"
    /\ returned = <<>>

ParseIdle ==
    /\ events = <<>>
    /\ taken = 0
    /\ parse_width = [some |-> FALSE, w |-> 0]
    /\ marked_lines = <<>>
    /\ current_line_spans = <<>>
    /\ in_code_block = FALSE
    /\ list_stack = <<>>
    /\ emphasis_stack = <<>>
    /\ link_destination = FALSE
    /\ parse_done = FALSE

AppIdle ==
    /\ phase = "none"
    /\ frame_width = 0
    /\ filtered_tasks = <<>>
    /\ selected = 0
    /\ current_task = [some |-> FALSE]
    /\ task_comments = <<>>
    /\ needs_task_reload = FALSE
    /\ focused_pane = "none"
    /\ fullscreen_pane = "none"
    /\ cached_description_lines = [some |-> FALSE]
    /\ cached_comments_lines = [some |-> FALSE]

-----------------------------------------------------------------------------
(* Bounds of the model *)

MaxRuns == 3        \* StyleRuns in one non-code input line
MaxCodeRuns == 2    \* StyleRuns in one code-block input line
MaxWidth == 11      \* largest wrapping width tried
MaxNodes == 5       \* element nodes below the body
MaxCalls == 2       \* calls of fix_nested_lists on one document

-----------------------------------------------------------------------------
(* Characters and text *)

BULLET == "@"
WIDE == "W"
TAB == "\t"

MinWrapWidth == 10

RECURSIVE Rep(_, _)
Rep(ch, n) == IF n = 0 THEN <<>> ELSE <<ch>> \o Rep(ch, n - 1)

\* char::is_whitespace on the characters of the model
is_whitespace(ch) == ch \in {" ", TAB}

is_ascii_digit(ch) == ch \in {"0", "1", "2", "3", "4", "5", "6", "7", "8", "9"}

\* UnicodeWidthChar::width
CharWidth(ch) == IF ch = WIDE THEN 2 ELSE 1

\* UnicodeWidthStr::width
RECURSIVE StrWidth(_)
StrWidth(text) ==
    IF text = <<>> THEN 0 ELSE CharWidth(Head(text)) + StrWidth(Tail(text))

\* ratatui Span and the MarkdownLine struct
Span(content, style) == [content |-> content, style |-> style]
DefaultStyle == "plain"
SpanRaw(content) == Span(content, DefaultStyle)
MarkdownLine(spans, code) == [spans |-> spans, is_code_block |-> code]
WordSpan(content, style, ws) ==
    [content |-> content, style |-> style, is_whitespace |-> ws]

\* line.spans.iter().map(|s| s.content.as_ref()).collect()
RECURSIVE LineText(_)
LineText(spans) ==
    IF spans = <<>> THEN <<>> ELSE Head(spans).content \o LineText(Tail(spans))

-----------------------------------------------------------------------------
(* split_line_into_words *)

\* last index of the whitespace run that starts at i (the inner peek loop)
RECURSIVE WhitespaceEnd(_, _)
WhitespaceEnd(content, i) ==
    IF i < Len(content) /\ is_whitespace(content[i + 1])
    THEN WhitespaceEnd(content, i + 1)
    ELSE i

\* the while loop over one span; i and current_pos are 1-based
RECURSIVE SplitSpan(_, _, _, _, _)
SplitSpan(content, style, i, current_pos, words) ==
    IF i > Len(content)
    THEN IF current_pos <= Len(content)
         THEN Append(words,
                     WordSpan(SubSeq(content, current_pos, Len(content)), style, FALSE))
         ELSE words
    ELSE IF is_whitespace(content[i])
    THEN LET before == IF i > current_pos
                       THEN Append(words,
                                   WordSpan(SubSeq(content, current_pos, i - 1), style, FALSE))
                       ELSE words
             whitespace_end == WhitespaceEnd(content, i)
         IN  SplitSpan(content, style, whitespace_end + 1, whitespace_end + 1,
                       Append(before,
                              WordSpan(SubSeq(content, i, whitespace_end), style, TRUE)))
    ELSE IF i = Len(content)
    THEN SplitSpan(content, style, i + 1, Len(content) + 1,
                   Append(words,
                          WordSpan(SubSeq(content, current_pos, Len(content)), style, FALSE)))
    ELSE SplitSpan(content, style, i + 1, current_pos, words)

RECURSIVE SplitSpans(_, _)
SplitSpans(spans, words) ==
    IF spans = <<>> THEN words
    ELSE SplitSpans(Tail(spans),
                    SplitSpan(Head(spans).content, Head(spans).style, 1, 1, words))

split_line_into_words(spans) == SplitSpans(spans, <<>>)

-----------------------------------------------------------------------------
(* calculate_continuation_indent *)

\* the loop that counts leading spaces (1) and tabs (4)
RECURSIVE LeadingIndent(_)
LeadingIndent(text) ==
    IF text = <<>> THEN 0
    ELSE IF Head(text) = " " THEN 1 + LeadingIndent(Tail(text))
    ELSE IF Head(text) = TAB THEN 4 + LeadingIndent(Tail(text))
    ELSE 0

RECURSIVE trim_start(_)
trim_start(text) ==
    IF text # <<>> /\ is_whitespace(Head(text)) THEN trim_start(Tail(text)) ELSE text

starts_with(text, prefix) ==
    /\ Len(text) >= Len(prefix)
    /\ SubSeq(text, 1, Len(prefix)) = prefix

\* str::find: 0-based offset of the first occurrence, -1 for None
find(text, pat) ==
    LET hits == {p \in 0..(Len(text) - Len(pat)) :
                    SubSeq(text, p + 1, p + Len(pat)) = pat}
    IN  IF hits = {} THEN -1 ELSE CHOOSE p \in hits : \A q \in hits : p <= q

calculate_continuation_indent(spans) ==
    LET text == LineText(spans)
        indent == LeadingIndent(text)
        trimmed == trim_start(text)
        dot_pos == find(trimmed, <<".", " ">>)
    IN  IF \/ starts_with(trimmed, <<BULLET, " ">>)
           \/ starts_with(trimmed, <<"-", " ">>)
           \/ starts_with(trimmed, <<"*", " ">>)
        THEN indent + 2
        ELSE IF dot_pos >= 0 /\ \A j \in 1..dot_pos : is_ascii_digit(trimmed[j])
        THEN indent + dot_pos + 2
        ELSE indent

-----------------------------------------------------------------------------
(* words_to_spans *)

NoStyle == "None"

\* variant: the test forgets that the word must be whitespace
skip_leading_any_word(is_first_line, current_content, word) ==
    ~is_first_line /\ current_content = <<>>

\* the test that skips leading whitespace on continuation lines
skip_leading_whitespace(is_first_line, current_content, word) ==
    ~is_first_line /\ current_content = <<>> /\ word.is_whitespace

\* variant: every word joins the run that is open
same_style_any(current_style, word) == current_style # NoStyle

\* current_style.as_ref() == Some(&word.style)
same_style(current_style, word) == current_style = word.style

\* the for loop over the words and the final span
RECURSIVE MergeWords(_, _, _, _, _)
MergeWords(words, is_first_line, spans, current_content, current_style) ==
    IF words = <<>>
    THEN IF current_content # <<>>
         THEN Append(spans, Span(current_content, current_style))
         ELSE spans
    ELSE LET word == Head(words) IN
         IF skip_leading_whitespace(is_first_line, current_content, word)
         THEN MergeWords(Tail(words), is_first_line, spans, current_content, current_style)
         ELSE IF same_style(current_style, word)
         THEN MergeWords(Tail(words), is_first_line, spans,
                         current_content \o word.content, current_style)
         ELSE MergeWords(Tail(words), is_first_line,
                         IF current_content # <<>>
                         THEN Append(spans, Span(current_content, current_style))
                         ELSE spans,
                         word.content, word.style)

words_to_spans(words, is_first_line, continuation_indent) ==
    LET indent_spans == IF ~is_first_line /\ continuation_indent > 0
                        THEN <<SpanRaw(Rep(" ", continuation_indent))>>
                        ELSE <<>>
    IN  MergeWords(words, is_first_line, indent_spans, <<>>, NoStyle)

-----------------------------------------------------------------------------
(* wrap_single_line *)

saturating_sub(a, b) == IF a >= b THEN a - b ELSE 0

\* variant: the continuation indent is not taken off
available_width_ignores_indent(max_width, continuation_indent, is_first_line) ==
    max_width

\* the width a display line may take
available_width(max_width, continuation_indent, is_first_line) ==
    IF is_first_line
    THEN max_width
    ELSE saturating_sub(max_width, continuation_indent)

\* variant: code blocks are not exempt
returns_unchanged_narrow_only(line, max_width) == max_width < MinWrapWidth

\* the early return: never wrap code blocks or very narrow widths
returns_unchanged(line, max_width) ==
    line.is_code_block \/ max_width < MinWrapWidth

\* the for loop over the words and the final line
RECURSIVE WrapWords(_, _, _, _, _, _, _)
WrapWords(words, max_width, continuation_indent, result_lines, current_line_words, current_width, is_first_line) ==
    IF words = <<>>
    THEN IF current_line_words # <<>>
         THEN Append(result_lines,
                     MarkdownLine(words_to_spans(current_line_words, is_first_line,
                                                 continuation_indent), FALSE))
         ELSE result_lines
    ELSE LET word == Head(words)
             word_width == StrWidth(word.content)
             available == available_width(max_width, continuation_indent, is_first_line)
         IN  IF current_width + word_width > available /\ current_line_words # <<>>
             THEN WrapWords(Tail(words), max_width, continuation_indent,
                            Append(result_lines,
                                   MarkdownLine(words_to_spans(current_line_words,
                                                               is_first_line,
                                                               continuation_indent), FALSE)),
                            <<word>>, word_width, FALSE)
             ELSE WrapWords(Tail(words), max_width, continuation_indent,
                            result_lines, Append(current_line_words, word),
                            current_width + word_width, is_first_line)

\* variant: the line is dropped
original_line_dropped(line) == <<>>

\* vec![line]: the original line as a one-line result
original_line(line) == <<line>>

wrap_single_line(line, max_width, continuation_indent) ==
    IF returns_unchanged(line, max_width)
    THEN original_line(line)
    ELSE LET words == split_line_into_words(line.spans) IN
         IF words = <<>>
         THEN original_line(line)
         ELSE LET result_lines == WrapWords(words, max_width, continuation_indent,
                                            <<>>, <<>>, 0, TRUE)
              IN  IF result_lines = <<>> THEN original_line(line) ELSE result_lines

-----------------------------------------------------------------------------
(* wrap_markdown_lines: the input lines and the loop *)

Bold == "bold"

\* StyleRuns the input lines are made of
Runs ==
    { SpanRaw(<<BULLET, " ">>),
      SpanRaw(Rep(" ", 4)),
      SpanRaw(Rep("a", 4) \o <<" ">> \o Rep("b", 8) \o <<" ">>),
      Span(Rep("c", 6), Bold),
      SpanRaw(Rep("d", 4)),
      SpanRaw(<<" ">>),
      SpanRaw(Rep("e", 12)),
      Span(Rep(WIDE, 3) \o <<" ", "f", "f">>, Bold),
      SpanRaw(<<"1", ".", " ">>),
      Span(<<" ", "g", "g">>, Bold) }

SeqsUpTo(S, n) == UNION { [1..k -> S] : k \in 1..n }

\* the blank separator line of the parser: one raw span with no text
BlankLine == MarkdownLine(<<SpanRaw(<<>>)>>, FALSE)

InputLines ==
    { MarkdownLine(spans, FALSE) : spans \in SeqsUpTo(Runs, MaxRuns) }
      \cup { MarkdownLine(spans, TRUE) : spans \in SeqsUpTo(Runs, MaxCodeRuns) }
      \cup { BlankLine }

\* lines of the inputs that hold more than one line
ShortLines ==
    { MarkdownLine(<<r>>, FALSE) : r \in Runs }
      \cup { MarkdownLine(<<r>>, TRUE) : r \in Runs }
      \cup { BlankLine }

Widths == {0, MinWrapWidth - 1} \cup MinWrapWidth..MaxWidth

InputVecs ==
    { <<l>> : l \in InputLines } \cup { <<a, b>> : a \in ShortLines, b \in ShortLines }

NoTree == <<>>

WrapInit ==
    /\ lines \in InputVecs
    /\ width \in Widths
    /\ idx = 0
    /\ wrapped_lines = <<>>
    /\ wrapped = <<>>
    /\ RepairIdle
    /\ ImagesIdle
    /\ ConvertIdle
    /\ ParseIdle
    /\ AppIdle

\* variant: the indent is computed once, from the first line
line_continuation_indent_first(ls, i) == calculate_continuation_indent(ls[1].spans)

\* the continuation indent of the line the loop has reached
line_continuation_indent(ls, i) == calculate_continuation_indent(ls[i].spans)

\* one iteration of the for loop of wrap_markdown_lines
WrapNextLine ==
    /\ idx < Len(lines)
    /\ LET line == lines[idx + 1]
           continuation_indent == line_continuation_indent(lines, idx + 1)
           single == wrap_single_line(line, width, continuation_indent)
       IN  /\ wrapped_lines' = single
           /\ wrapped' = wrapped \o single
    /\ idx' = idx + 1
    /\ UNCHANGED <<lines, width>>
    /\ UNCHANGED notWrapVars

WrapNext == WrapNextLine

SpecWrap == WrapInit /\ [][WrapNext]_vars

-----------------------------------------------------------------------------
(* fix_nested_lists: the document tree and the repair *)

Body == 0
ListTags == {"ul", "ol"}
Tags == ListTags \cup {"li", "div"}

RECURSIVE AncestorsOrSelf(_, _)
AncestorsOrSelf(par, n) ==
    IF n = Body THEN {Body} ELSE {n} \cup AncestorsOrSelf(par, par[n])

\* parent functions of the forests of n nodes numbered in document order
Forests(n) ==
    { par \in [1..n -> 0..(n - 1)] :
        \A i \in 1..n :
            /\ par[i] < i
            /\ i > 1 => par[i] \in AncestorsOrSelf(par, i - 1) }

RECURSIVE Ascending(_)
Ascending(S) ==
    IF S = {} THEN <<>>
    ELSE LET m == CHOOSE x \in S : \A y \in S : x <= y
         IN  <<m>> \o Ascending(S \ {m})

ChildrenOf(par) ==
    [x \in 0..Len(par) |-> Ascending({i \in 1..Len(par) : par[i] = x})]

Tree(par, kids) == [parent |-> par, children |-> kids]

RepairInit ==
    /\ \E n \in 1..MaxNodes :
          /\ parent \in Forests(n)
          /\ tag \in [1..n -> Tags]
    /\ children = ChildrenOf(parent)
    /\ fixes_needed = <<>>
    /\ pc = "start"
    /\ calls = 0
    /\ original = Tree(parent, children)
    /\ repaired = NoTree
    /\ WrapIdle
    /\ ImagesIdle
    /\ ConvertIdle
    /\ ParseIdle
    /\ AppIdle

\* document.select("ul, ol"): the list elements in document order
RECURSIVE Descendants(_)
Descendants(nodes) ==
    IF nodes = <<>> THEN <<>>
    ELSE <<Head(nodes)>> \o Descendants(children[Head(nodes)]) \o Descendants(Tail(nodes))

is_list(node) == tag[node] \in ListTags

list_selector == SelectSeq(Descendants(children[Body]), is_list)

\* variant: the name of the parent is not looked at
parent_is_anything(node) == TRUE

\* the parent is an element named ul or ol
parent_is_list(node) == parent[node] # Body /\ tag[parent[node]] \in ListTags

\* variant: any preceding element ends the walk
is_li_any_element(node) == TRUE

\* the element test of the backward walk
is_li(node) == tag[node] = "li"

IndexIn(seq, x) == CHOOSE j \in 1..Len(seq) : seq[j] = x

\* variant: the walk keeps going and ends at the first li of the parent
walk_back_to_first(siblings, j) ==
    LET lis == {i \in 1..j : is_li(siblings[i])}
    IN  IF lis = {} THEN Body
        ELSE siblings[CHOOSE i \in lis : \A i2 \in lis : i <= i2]

\* the walk over previous_sibling(): the li found, or Body when the walk
\* runs out of siblings
RECURSIVE walk_back(_, _)
walk_back(siblings, j) ==
    IF j = 0 THEN Body
    ELSE IF is_li(siblings[j]) THEN siblings[j]
    ELSE walk_back(siblings, j - 1)

preceding_li(node) ==
    LET siblings == children[parent[node]]
    IN  walk_back(siblings, IndexIn(siblings, node) - 1)

\* the loop that collects the fixes
RECURSIVE collect_fixes(_, _)
collect_fixes(lists, fixes) ==
    IF lists = <<>> THEN fixes
    ELSE LET list_node == Head(lists) IN
         IF parent_is_list(list_node) /\ preceding_li(list_node) # Body
         THEN collect_fixes(Tail(lists),
                            Append(fixes, <<list_node, preceding_li(list_node)>>))
         ELSE collect_fixes(Tail(lists), fixes)

Remove(seq, x) == SelectSeq(seq, LAMBDA y : y # x)

\* list_node.detach()
detach(kids, node) ==
    [kids EXCEPT ![parent[node]] = Remove(kids[parent[node]], node)]

\* li_node.append(list_node)
append_child(kids, li_node, node) ==
    [kids EXCEPT ![li_node] = Append(kids[li_node], node)]

\* the selector loop: collect the nodes to fix before anything is changed
CollectFixes ==
    /\ pc = "start"
    /\ fixes_needed' = collect_fixes(list_selector, <<>>)
    /\ pc' = "apply"
    /\ UNCHANGED <<tag, parent, children, calls, original, repaired>>
    /\ UNCHANGED notRepairVars

\* one iteration of the loop that applies the fixes
ApplyFix ==
    /\ pc = "apply"
    /\ fixes_needed # <<>>
    /\ LET list_node == Head(fixes_needed)[1]
           li_node == Head(fixes_needed)[2]
       IN  /\ children' = append_child(detach(children, list_node), li_node, list_node)
           /\ parent' = [parent EXCEPT ![list_node] = li_node]
    /\ fixes_needed' = Tail(fixes_needed)
    /\ UNCHANGED <<tag, pc, calls, original, repaired>>
    /\ UNCHANGED notRepairVars

\* document.to_string(): the repaired document is returned
ReturnFixed ==
    /\ pc = "apply"
    /\ fixes_needed = <<>>
    /\ pc' = "returned"
    /\ calls' = calls + 1
    /\ repaired' = IF calls = 0 THEN Tree(parent, children) ELSE repaired
    /\ UNCHANGED <<tag, parent, children, fixes_needed, original>>
    /\ UNCHANGED notRepairVars

\* fix_nested_lists is applied to its own output
CallAgain ==
    /\ pc = "returned"
    /\ calls < MaxCalls
    /\ pc' = "start"
    /\ UNCHANGED <<tag, parent, children, fixes_needed, calls, original, repaired>>
    /\ UNCHANGED notRepairVars

RepairNext == CollectFixes \/ ApplyFix \/ ReturnFixed \/ CallAgain

SpecRepair == RepairInit /\ [][RepairNext]_vars

-----------------------------------------------------------------------------
(* Properties of the Word-Wrap Engine *)

\* the line the loop has just wrapped, and its continuation indent
CurLine == lines[idx]
CurIndent == calculate_continuation_indent(CurLine.spans)

\* a non-code line has been wrapped at a width that allows wrapping
Wrapping == idx >= 1 /\ ~CurLine.is_code_block /\ width >= MinWrapWidth

DisplayLines == 1..Len(wrapped_lines)

DisplayText(k) == LineText(wrapped_lines[k].spans)

\* the runs of display line k without the injected indent run
DisplayContent(k) ==
    IF k > 1 /\ CurIndent > 0 /\ Len(wrapped_lines[k].spans) > 0
    THEN Tail(wrapped_lines[k].spans)
    ELSE wrapped_lines[k].spans

ContentText(k) == LineText(DisplayContent(k))

Avail(k) == IF k = 1 THEN width ELSE saturating_sub(width, CurIndent)

HasNoWhitespace(text) == \A j \in 1..Len(text) : ~is_whitespace(text[j])

\* the characters of some runs, each with the style of its run
RECURSIVE StyledChars(_)
StyledChars(spans) ==
    IF spans = <<>> THEN <<>>
    ELSE [j \in 1..Len(Head(spans).content) |->
             <<Head(spans).content[j], Head(spans).style>>]
         \o StyledChars(Tail(spans))

RECURSIVE OutCharsFrom(_)
OutCharsFrom(k) ==
    IF k > Len(wrapped_lines) THEN <<>>
    ELSE StyledChars(DisplayContent(k)) \o OutCharsFrom(k + 1)

InChars == StyledChars(CurLine.spans)
OutChars == OutCharsFrom(1)

IsWsChar(c) == is_whitespace(c[1])
NonWs(cs) == SelectSeq(cs, LAMBDA c : ~IsWsChar(c))

\* out is inp with some whitespace characters deleted
RECURSIVE WsDeletion(_, _)
WsDeletion(inp, out) ==
    IF inp = <<>> THEN out = <<>>
    ELSE IF out # <<>> /\ Head(inp) = Head(out) THEN WsDeletion(Tail(inp), Tail(out))
    ELSE IsWsChar(Head(inp)) /\ WsDeletion(Tail(inp), out)

\* the maximal non-whitespace runs of a text, styles ignored
IsWord(w) == ~w.is_whitespace
RECURSIVE Contents(_)
Contents(ws) == IF ws = <<>> THEN <<>> ELSE <<Head(ws).content>> \o Contents(Tail(ws))
TextWords(text) ==
    Contents(SelectSeq(split_line_into_words(<<SpanRaw(text)>>), IsWord))

RECURSIVE OutTextWordsFrom(_)
OutTextWordsFrom(k) ==
    IF k > Len(wrapped_lines) THEN <<>>
    ELSE TextWords(ContentText(k)) \o OutTextWordsFrom(k + 1)

\* C1 as stated: every display line of a non-code line wrapped at w >= 10,
\* injected indent included, is at most w wide, unless it is a single word
\* whose own width is greater than w.
C1_WidthBound ==
    Wrapping =>
        \A k \in DisplayLines :
            \/ StrWidth(DisplayText(k)) <= width
            \/ /\ ContentText(k) # <<>>
               /\ HasNoWhitespace(ContentText(k))
               /\ StrWidth(ContentText(k)) > width

\* C1 amended: every display line of a non-code line wrapped at w >= 10,
\* injected indent included, is at most w wide, unless it is built from a
\* single WordSpan that is wider than the width available on that display
\* line (w on the first one, w minus the continuation indent on the later
\* ones), or unless the continuation indent alone is wider than w.
C1_WidthBoundAvailable ==
    Wrapping =>
        \A k \in DisplayLines :
            \/ StrWidth(DisplayText(k)) <= width
            \/ k > 1 /\ CurIndent > width
            \/ /\ Len(split_line_into_words(DisplayContent(k))) = 1
               /\ StrWidth(ContentText(k)) > Avail(k)

\* C1 witness: a wrapped line with a continuation line that is full to the
\* last column and another display line that overflows with a single word.
C1_Witness ==
    /\ Wrapping
    /\ Len(wrapped_lines) >= 3
    /\ \E k \in DisplayLines : k > 1 /\ CurIndent > 0 /\ StrWidth(DisplayText(k)) = width
    /\ \E k \in DisplayLines : StrWidth(DisplayText(k)) > width

\* C2: a non-code line wrapped at w >= 10 is never broken inside a word: the
\* whitespace-separated words of the display lines are the whitespace-
\* separated words of the line's concatenated text, and a word wider than the
\* available width is alone on its display line.
C2_NoMidWordBreak ==
    Wrapping =>
        /\ OutTextWordsFrom(1) = TextWords(LineText(CurLine.spans))
        /\ \A k \in DisplayLines :
              LET ws == TextWords(ContentText(k)) IN
              (\E j \in 1..Len(ws) : StrWidth(ws[j]) > Avail(k)) => Len(ws) = 1

\* C3: every step of the loop that takes a code-block line appends exactly
\* that line, unchanged and still flagged as code block, whatever the width.
C3_CodeBlockImmunity ==
    [][ (idx' = idx + 1 /\ lines[idx'].is_code_block)
            => (wrapped' = Append(wrapped, lines[idx']) /\ wrapped'[Len(wrapped')].is_code_block) ]_vars

\* C3 witness: a code-block line wider than a wrapping width has been taken.
C3_Witness ==
    /\ idx >= 1
    /\ CurLine.is_code_block
    /\ width >= MinWrapWidth
    /\ StrWidth(LineText(CurLine.spans)) > width
    /\ Len(CurLine.spans) > 1
    /\ wrapped_lines = <<CurLine>>

\* C4: for a non-code line and any width, the characters of the display
\* lines, injected indent left out, are the characters of the line in the
\* same order with only whitespace missing, each with the style of the run it
\* came from, so a run never holds words of different styles.
C4_StylePreserved ==
    (idx >= 1 /\ ~CurLine.is_code_block) =>
        /\ WsDeletion(InChars, OutChars)
        /\ \A k \in DisplayLines : \A j \in 1..Len(DisplayContent(k)) :
              DisplayContent(k)[j].style # NoStyle

\* C4 witness: a line with runs of two styles was wrapped into several
\* display lines and a display line holds runs of both styles.
C4_Witness ==
    /\ Wrapping
    /\ Len(wrapped_lines) >= 2
    /\ \E k \in DisplayLines :
          /\ k > 1
          /\ \E i, j \in 1..Len(DisplayContent(k)) :
                DisplayContent(k)[i].style # DisplayContent(k)[j].style
    /\ \E k \in DisplayLines : \E j \in 1..Len(DisplayContent(k)) :
          Len(split_line_into_words(<<DisplayContent(k)[j]>>)) > 1

\* the non-whitespace WordSpans of some runs
WordsOf(spans) == SelectSeq(split_line_into_words(spans), IsWord)

RECURSIVE OutWordsFrom(_)
OutWordsFrom(k) ==
    IF k > Len(wrapped_lines) THEN <<>>
    ELSE WordsOf(DisplayContent(k)) \o OutWordsFrom(k + 1)

\* the places where a sequence of words ends a word, counted in characters
RECURSIVE LenSum(_)
LenSum(ws) == IF ws = <<>> THEN 0 ELSE Len(Head(ws).content) + LenSum(Tail(ws))
Cuts(ws) == { LenSum(SubSeq(ws, 1, m)) : m \in 0..Len(ws) }

RECURSIVE DropLeadingWs(_)
DropLeadingWs(cs) ==
    IF cs # <<>> /\ IsWsChar(Head(cs)) THEN DropLeadingWs(Tail(cs)) ELSE cs

\* the display lines from k on are the characters inp, cut into lines, with
\* nothing missing but whitespace at the start of a continuation line
RECURSIVE LinesMatch(_, _)
LinesMatch(inp, k) ==
    IF k > Len(wrapped_lines) THEN inp = <<>>
    ELSE LET rest == IF k > 1 THEN DropLeadingWs(inp) ELSE inp
             out == StyledChars(DisplayContent(k))
         IN  /\ Len(rest) >= Len(out)
             /\ SubSeq(rest, 1, Len(out)) = out
             /\ LinesMatch(SubSeq(rest, Len(out) + 1, Len(rest)), k + 1)

\* C5: wrapping loses, duplicates and reorders no word: the non-whitespace
\* characters of the display lines are those of the line, every word of the
\* line lies whole inside one word of one display line, and the only
\* characters missing are whitespace at the start of a continuation line.
C5_WordsPreserved ==
    (idx >= 1 /\ ~CurLine.is_code_block) =>
        /\ NonWs(OutChars) = NonWs(InChars)
        /\ Cuts(OutWordsFrom(1)) \subseteq Cuts(WordsOf(CurLine.spans))
        /\ LenSum(OutWordsFrom(1)) = LenSum(WordsOf(CurLine.spans))
        /\ LinesMatch(InChars, 1)

\* C5 witness: a line of at least three words was wrapped into several
\* display lines and whitespace at the start of a continuation line is gone.
C5_Witness ==
    /\ Wrapping
    /\ Len(wrapped_lines) >= 2
    /\ Len(WordsOf(CurLine.spans)) >= 3
    /\ Len(OutChars) < Len(InChars)

\* the number of spaces a text starts with
RECURSIVE LeadingSpaces(_)
LeadingSpaces(text) ==
    IF text # <<>> /\ Head(text) = " " THEN 1 + LeadingSpaces(Tail(text)) ELSE 0

BulletLine ==
    LET text == LineText(CurLine.spans)
        i == LeadingSpaces(text)
    IN  starts_with(SubSeq(text, i + 1, Len(text)), <<BULLET, " ">>)

\* C6: when a line that starts with i spaces and the bullet marker is
\* wrapped at w >= 10 into several display lines, the first display line
\* starts with the i spaces and the marker, and every later display line
\* starts with exactly i + 2 spaces followed by a non-whitespace character.
C6_BulletContinuation ==
    (Wrapping /\ BulletLine /\ Len(wrapped_lines) >= 2) =>
        LET i == LeadingSpaces(LineText(CurLine.spans)) IN
        /\ starts_with(DisplayText(1), Rep(" ", i) \o <<BULLET, " ">>)
        /\ \A k \in 2..Len(wrapped_lines) :
              /\ Len(DisplayText(k)) > i + 2
              /\ SubSeq(DisplayText(k), 1, i + 2) = Rep(" ", i + 2)
              /\ ~is_whitespace(DisplayText(k)[i + 3])

\* what wrap_markdown_lines returns for each of some lines alone, concatenated
RECURSIVE EachAlone(_)
EachAlone(ls) ==
    IF ls = <<>> THEN <<>>
    ELSE wrap_single_line(Head(ls), width,
                          calculate_continuation_indent(Head(ls).spans))
         \o EachAlone(Tail(ls))

\* C7: the loop carries nothing from one line to the next: after any number
\* of lines the result is the concatenation of the results of each line
\* wrapped alone, and equal lines have got equal display lines.
C7_NoCarriedState ==
    /\ wrapped = EachAlone(SubSeq(lines, 1, idx))
    /\ (idx = 2 /\ lines[1] = lines[2]) => wrapped = wrapped_lines \o wrapped_lines

\* C7 witness: two lines with different continuation indents were wrapped,
\* the second one into several display lines.
C7_Witness ==
    /\ idx = 2
    /\ width >= MinWrapWidth
    /\ Len(wrapped_lines) >= 2
    /\ Len(wrapped) > Len(wrapped_lines)
    /\ calculate_continuation_indent(lines[1].spans)
          # calculate_continuation_indent(lines[2].spans)

-----------------------------------------------------------------------------
(* Properties of Structure Repair *)

Nodes == 1..Len(tag)
CurTree == Tree(parent, children)

Pos(seq, x) == CHOOSE j \in 1..Len(seq) : seq[j] = x
Has(seq, x) == \E j \in 1..Len(seq) : seq[j] = x

\* in the tree t, node x is a list directly under a list
Misplaced(t, x) ==
    /\ tag[x] \in ListTags
    /\ t.parent[x] # Body
    /\ tag[t.parent[x]] \in ListTags

\* the li siblings in front of x in the tree t
LiBefore(t, x) ==
    LET sibs == t.children[t.parent[x]]
    IN  { sibs[j] : j \in { i \in 1..(Pos(sibs, x) - 1) : tag[sibs[i]] = "li" } }

NearestLiBefore(t, x) ==
    LET sibs == t.children[t.parent[x]]
    IN  CHOOSE l \in LiBefore(t, x) :
            \A m \in LiBefore(t, x) : Pos(sibs, m) <= Pos(sibs, l)

\* C8: repair applied to its own output changes nothing: once the first call
\* has returned, a further call finds nothing to fix and the tree stays the
\* tree the first call returned.
C8_RepairIdempotent ==
    calls >= 1 => (CurTree = repaired /\ fixes_needed = <<>>)

\* C8 witness: a tree with lists nested directly inside lists to three
\* levels has been repaired twice, and the first call moved both inner lists.
C8_Witness ==
    /\ calls = 2
    /\ \E x, y \in Nodes :
          /\ Misplaced(original, x) /\ Misplaced(original, y)
          /\ original.parent[x] = y
          /\ repaired.parent[x] # original.parent[x]
          /\ repaired.parent[y] # original.parent[y]

\* C9: after repair, every list that was directly under a list and had an li
\* sibling in front of it is a child of the nearest such li, behind all the
\* children that li had, and not directly under a list any more; a list
\* directly under a list with no li sibling in front of it is where it was.
C9_MovedIntoNearestLi ==
    calls >= 1 =>
        \A x \in Nodes : Misplaced(original, x) =>
            IF LiBefore(original, x) # {}
            THEN LET li == NearestLiBefore(original, x) IN
                 /\ repaired.parent[x] = li
                 /\ Has(repaired.children[li], x)
                 /\ \A c \in Nodes : Has(original.children[li], c) =>
                       /\ Has(repaired.children[li], c)
                       /\ Pos(repaired.children[li], c) < Pos(repaired.children[li], x)
                 /\ ~Misplaced(repaired, x)
            ELSE /\ repaired.parent[x] = original.parent[x]
                 /\ Pos(repaired.children[repaired.parent[x]], x)
                       = Pos(original.children[original.parent[x]], x)

\* C9 witness: one call moved a list into the li in front of it, behind the
\* child that li already had, and left alone a list under a list that had no
\* li in front of it.
C9_Witness ==
    /\ calls >= 1
    /\ \E x \in Nodes :
          /\ Misplaced(original, x)
          /\ LiBefore(original, x) # {}
          /\ original.children[NearestLiBefore(original, x)] # <<>>
          /\ repaired.parent[x] = NearestLiBefore(original, x)
    /\ \E y \in Nodes :
          /\ Misplaced(original, y)
          /\ LiBefore(original, y) = {}
          /\ repaired.parent[y] = original.parent[y]

\* C10: repair creates and deletes no node, changes the parent of no node
\* but a list that was directly under a list, and keeps the order of the
\* siblings that stay together; a tree with no list directly under a list
\* is returned as it was.
C10_FrameOfRepair ==
    /\ DOMAIN parent = Nodes /\ DOMAIN children = 0..Len(tag)
    /\ \A x \in Nodes :
          /\ Len(SelectSeq(children[parent[x]], LAMBDA y : y = x)) = 1
          /\ \A y \in 0..Len(tag) : Has(children[y], x) => parent[x] = y
    /\ \A x \in Nodes : ~Misplaced(original, x) => parent[x] = original.parent[x]
    /\ \A y \in 0..Len(tag) :
          SelectSeq(children[y], LAMBDA c : original.parent[c] = y)
             = SelectSeq(original.children[y], LAMBDA c : parent[c] = y)
    /\ (\A x \in Nodes : ~Misplaced(original, x)) => CurTree = original

\* C10 witness: a call has moved a list and returned, and a sibling that
\* stood behind the moved list is still under its parent.
C10_Witness ==
    /\ calls >= 1
    /\ \E x, s \in Nodes :
          /\ parent[x] # original.parent[x]
          /\ original.parent[s] = original.parent[x]
          /\ Pos(original.children[original.parent[x]], s)
                > Pos(original.children[original.parent[x]], x)
          /\ parent[s] = original.parent[s]

\* the nodes of the tree t below the given nodes, left to right
RECURSIVE PreOrder(_, _)
PreOrder(t, nodes) ==
    IF nodes = <<>> THEN <<>>
    ELSE <<Head(nodes)>> \o PreOrder(t, t.children[Head(nodes)])
                         \o PreOrder(t, Tail(nodes))

\* a node that carries content: an li, or a node that is no list and no li
\* (a text, or an element around one)
IsContent(x) == tag[x] \notin ListTags

\* the content of the tree t in document order
ContentOrder(t) == SelectSeq(PreOrder(t, t.children[Body]), IsContent)

\* C30: repair keeps the document order of the content: the left-to-right
\* sequence of the content nodes of the tree a call returns is the sequence
\* of the tree it was given.
C30_ContentOrderKept ==
    calls >= 1 => ContentOrder(repaired) = ContentOrder(original)

\* the line the loop has taken has no words
NoWords == split_line_into_words(CurLine.spans) = <<>>

\* C16: a line taken at a width below 10 (0 included), or a line without
\* words, comes back as exactly that line, alone; and whatever the line and
\* the width, the result holds at least one line.
C16_DegenerateUnchanged ==
    idx >= 1 =>
        /\ (width < MinWrapWidth \/ NoWords) => wrapped_lines = <<CurLine>>
        /\ Len(wrapped_lines) >= 1

\* C16 witness: a non-code line of several words, wider than the width, has
\* been taken at a width below 10 and has come back alone.
C16_Witness ==
    /\ idx >= 1
    /\ width < MinWrapWidth
    /\ ~CurLine.is_code_block
    /\ Len(split_line_into_words(CurLine.spans)) > 2
    /\ StrWidth(LineText(CurLine.spans)) > width
    /\ wrapped_lines = <<CurLine>>

-----------------------------------------------------------------------------
(* The image pass of the converter: replace_markdown_images *)

MaxFragments == 4   \* fragments one input text is put together from

\* the input texts: every concatenation of up to MaxFragments fragments
Fragments ==
    { <<"a">>, <<"!">>, <<"[">>, <<"]">>, <<"(">>, <<")">>,
      <<"!", "[">>, <<"]", "(">>,
      <<"!", "[", "a", "]", "(", "a", ")">>,
      <<"[", "a", "]", "(", "a", ")">>,
      <<"!", "[", "]", "(", "(", ")", ")">> }

RECURSIVE Concat(_)
Concat(ss) == IF ss = <<>> THEN <<>> ELSE Head(ss) \o Concat(Tail(ss))

Markdowns == { Concat(fs) : fs \in SeqsUpTo(Fragments, MaxFragments) }

ImagesInit ==
    /\ markdown \in Markdowns
    /\ chars = 0
    /\ result = <<>>
    /\ WrapIdle
    /\ RepairIdle
    /\ ConvertIdle
    /\ ParseIdle
    /\ AppIdle

\* chars.peek() after c characters have been consumed
peek(s, c) == IF c < Len(s) THEN s[c + 1] ELSE "none"

\* the alt-text loop started after c characters: the number of characters
\* consumed when it ends, at the first ']' or at the end of the text
RECURSIVE take_alt(_, _)
take_alt(s, c) ==
    IF c >= Len(s) THEN c
    ELSE IF s[c + 1] = "]" THEN c + 1
    ELSE take_alt(s, c + 1)

\* found_closing of the alt-text loop started after c characters
found_closing(s, c) == take_alt(s, c) > c /\ s[take_alt(s, c)] = "]"

\* alt_text of the alt-text loop started after c characters
alt_text(s, c) ==
    IF found_closing(s, c) THEN SubSeq(s, c + 1, take_alt(s, c) - 1)
    ELSE SubSeq(s, c + 1, take_alt(s, c))

\* the URL loop started after c characters with the given depth: the number
\* of characters consumed when it ends, at the ')' that brings the depth to
\* 0 or at the end of the text
RECURSIVE take_url(_, _, _)
take_url(s, c, depth) ==
    IF c >= Len(s) THEN c
    ELSE IF s[c + 1] = "(" THEN take_url(s, c + 1, depth + 1)
    ELSE IF s[c + 1] = ")"
         THEN IF depth - 1 = 0 THEN c + 1 ELSE take_url(s, c + 1, depth - 1)
    ELSE take_url(s, c + 1, depth)

\* the placeholder pushed for an image
placeholder(alt) ==
    IF alt = <<>> THEN <<"[", "I", "m", "a", "g", "e", "]">>
    ELSE <<"[", "I", "m", "a", "g", "e", ":", " ">> \o alt \o <<"]">>

\* the text pushed back when the candidate is not an image
restored(s, c) ==
    <<"!", "[">> \o alt_text(s, c) \o (IF found_closing(s, c) THEN <<"]">> ELSE <<>>)

\* ch == '!' && chars.peek() == Some(&'[') for the character taken after c
potential_image(s, c) == s[c + 1] = "!" /\ peek(s, c + 1) = "["

\* found_closing && chars.peek() == Some(&'(') for a candidate whose "!["
\* ends after c characters
is_image(s, c) == found_closing(s, c) /\ peek(s, take_alt(s, c)) = "("

\* the whole function on the text s, from c consumed characters on
RECURSIVE replace_from(_, _)
replace_from(s, c) ==
    IF c >= Len(s) THEN <<>>
    ELSE IF ~potential_image(s, c) THEN <<s[c + 1]>> \o replace_from(s, c + 1)
    ELSE IF is_image(s, c + 2)
         THEN placeholder(alt_text(s, c + 2))
                 \o replace_from(s, take_url(s, take_alt(s, c + 2) + 1, 1))
    ELSE restored(s, c + 2) \o replace_from(s, take_alt(s, c + 2))

replace_markdown_images(s) == replace_from(s, 0)

\* one iteration of the outer loop: an ordinary character is copied
CopyChar ==
    /\ chars < Len(markdown)
    /\ ~potential_image(markdown, chars)
    /\ result' = Append(result, markdown[chars + 1])
    /\ chars' = chars + 1
    /\ UNCHANGED markdown
    /\ UNCHANGED notImageVars

\* one iteration of the outer loop: an image is replaced by its placeholder
ReplaceImage ==
    /\ chars < Len(markdown)
    /\ potential_image(markdown, chars)
    /\ is_image(markdown, chars + 2)
    /\ result' = result \o placeholder(alt_text(markdown, chars + 2))
    /\ chars' = take_url(markdown, take_alt(markdown, chars + 2) + 1, 1)
    /\ UNCHANGED markdown
    /\ UNCHANGED notImageVars

\* variant: a candidate whose alt text is not closed is never restored
RestoreCandidate_closed_only ==
    /\ chars < Len(markdown)
    /\ potential_image(markdown, chars)
    /\ found_closing(markdown, chars + 2)
    /\ ~is_image(markdown, chars + 2)
    /\ result' = result \o restored(markdown, chars + 2)
    /\ chars' = take_alt(markdown, chars + 2)
    /\ UNCHANGED markdown
    /\ UNCHANGED notImageVars

\* one iteration of the outer loop: a candidate that is no image is restored
RestoreCandidate ==
    /\ chars < Len(markdown)
    /\ potential_image(markdown, chars)
    /\ ~is_image(markdown, chars + 2)
    /\ result' = result \o restored(markdown, chars + 2)
    /\ chars' = take_alt(markdown, chars + 2)
    /\ UNCHANGED markdown
    /\ UNCHANGED notImageVars

ImagesNext == CopyChar \/ ReplaceImage \/ RestoreCandidate

SpecImages == ImagesInit /\ [][ImagesNext]_vars

-----------------------------------------------------------------------------
(* Claims on the image pass *)

\* the pass has read the whole text
ImagesDone == markdown # <<>> /\ chars >= Len(markdown)

CountIn(u, k, ch) == Cardinality({i \in 1..k : u[i] = ch})

\* a url with balanced parentheses
Balanced(u) ==
    /\ \A k \in 1..Len(u) : CountIn(u, k, "(") >= CountIn(u, k, ")")
    /\ CountIn(u, Len(u), "(") = CountIn(u, Len(u), ")")

\* s[i..k] is a complete image "![alt](url)" whose alt ends at s[j]
ImageSpan(s, i, j, k) ==
    /\ i + 1 < j /\ j + 1 < k /\ k <= Len(s)
    /\ s[i] = "!" /\ s[i + 1] = "["
    /\ s[j] = "]" /\ \A m \in (i + 2)..(j - 1) : s[m] # "]"
    /\ s[j + 1] = "(" /\ s[k] = ")"
    /\ Balanced(SubSeq(s, j + 2, k - 1))

ImageAt(s, i) == \E j, k \in 1..Len(s) : ImageSpan(s, i, j, k)

ImageEnd(s, i) == CHOOSE k \in 1..Len(s) : \E j \in 1..Len(s) : ImageSpan(s, i, j, k)

ImageAlt(s, i) ==
    LET j == CHOOSE j \in 1..Len(s) : \E k \in 1..Len(s) : ImageSpan(s, i, j, k)
    IN  SubSeq(s, i + 2, j - 1)

\* the text with every complete image, taken from the left, replaced
RECURSIVE Expected(_, _)
Expected(s, i) ==
    IF i > Len(s) THEN <<>>
    ELSE IF ImageAt(s, i)
         THEN (IF ImageAlt(s, i) = <<>> THEN <<"[", "I", "m", "a", "g", "e", "]">>
               ELSE <<"[", "I", "m", "a", "g", "e", ":", " ">> \o ImageAlt(s, i) \o <<"]">>)
              \o Expected(s, ImageEnd(s, i) + 1)
    ELSE <<s[i]>> \o Expected(s, i + 1)

\* the characters that are in no complete image, in order
RECURSIVE Outside(_, _)
Outside(s, i) ==
    IF i > Len(s) THEN <<>>
    ELSE IF ImageAt(s, i) THEN Outside(s, ImageEnd(s, i) + 1)
    ELSE <<s[i]>> \o Outside(s, i + 1)

\* the characters of a appear in b in the same order
RECURSIVE IsSubsequence(_, _)
IsSubsequence(a, b) ==
    IF a = <<>> THEN TRUE
    ELSE IF b = <<>> THEN FALSE
    ELSE IF Head(a) = Head(b) THEN IsSubsequence(Tail(a), Tail(b))
    ELSE IsSubsequence(a, Tail(b))

\* C11: when the pass has read the whole text, the result is the text with
\* every complete image ![alt](url) (alt without ']', url with balanced
\* parentheses) replaced by [Image] or [Image: alt] and everything else,
\* ordinary links included, as it was.
C11_ImagesReplaced == ImagesDone => result = Expected(markdown, 1)

\* C12: when the pass has read the whole text, no position of the result
\* starts a complete image ![alt](url).
C12_NoImageSyntaxLeft ==
    ImagesDone => \A i \in 1..Len(result) : ~ImageAt(result, i)

\* C13: when the pass has read the whole text, the characters of the input
\* that are in no complete image ![alt](url) appear in the result, unchanged
\* and in their order.
C13_OutsideUnchanged ==
    ImagesDone => IsSubsequence(Outside(markdown, 1), result)

-----------------------------------------------------------------------------
(* The converter: html_to_markdown.  Hypertext is a sequence of tokens, a   *)
(* token being a tag or one character of text.                              *)

MaxHtmlFragments == 2   \* fragments one input hypertext is put together from

MisnestedList ==
    <<"<ul>", "<li>", "x", "</li>", "<ul>", "<li>", "y", "</li>", "</ul>", "</ul>">>

HtmlFragments ==
    { <<" ">>, <<"x">>, <<"<p>", "x", "</p>">>, <<"<pre>", "x", "</pre>">>,
      <<"<img>">>, MisnestedList }

Htmls == {<<>>} \cup { Concat(fs) : fs \in SeqsUpTo(HtmlFragments, MaxHtmlFragments) }

\* the texts converter.convert may return
ConverterOutputs ==
    { <<>>, <<"x">>, <<" ", "x", " ", " ">>,
      <<"!", "[", "a", "]", "(", "a", ")">>,
      <<" ", "x", " ", "!", "[", "]", "(", "a", ")", " ">> }

ConvertInit ==
    /\ html \in Htmls
    /\ stage = "start"
    /\ pre_wrapped = <<>>
    /\ fixed_html = <<>>
    /\ select_result = "none"
    /\ convert_result = "none"
    /\ returned = <<>>
    /\ WrapIdle
    /\ RepairIdle
    /\ ImagesIdle
    /\ ParseIdle
    /\ AppIdle

RECURSIVE trim_end(_)
trim_end(text) ==
    IF text # <<>> /\ is_whitespace(text[Len(text)])
    THEN trim_end(SubSeq(text, 1, Len(text) - 1))
    ELSE text

trim(text) == trim_end(trim_start(text))

\* str::replace of one tag by a sequence of tags
RECURSIVE replace(_, _, _)
replace(text, from, to) ==
    IF text = <<>> THEN <<>>
    ELSE (IF Head(text) = from THEN to ELSE <<Head(text)>>) \o replace(Tail(text), from, to)

wrap_pre_with_code(text) ==
    replace(replace(text, "<pre>", <<"<pre>", "<code>">>),
            "</pre>", <<"</code>", "</pre>">>)

\* the token that closes the list opened at text[i]
RECURSIVE list_close(_, _, _)
list_close(text, i, depth) ==
    IF i > Len(text) THEN Len(text)
    ELSE IF text[i] = "<ul>" THEN list_close(text, i + 1, depth + 1)
    ELSE IF text[i] = "</ul>"
         THEN IF depth = 1 THEN i ELSE list_close(text, i + 1, depth - 1)
    ELSE list_close(text, i + 1, depth)

\* the fixes on a well-formed token text: a list that follows an li as its
\* next sibling becomes the last child of that li
RECURSIVE apply_fixes(_)
apply_fixes(text) ==
    IF text = <<>> THEN <<>>
    ELSE IF Len(text) >= 2 /\ text[1] = "</li>" /\ text[2] = "<ul>"
         THEN LET e == list_close(text, 2, 0)
              IN  apply_fixes(SubSeq(text, 2, e))
                     \o apply_fixes(<<"</li>">> \o SubSeq(text, e + 1, Len(text)))
    ELSE <<Head(text)>> \o apply_fixes(Tail(text))

\* document.to_string() of the parsed fragment
document_to_string(body) ==
    <<"<html>", "<head>", "</head>", "<body>">> \o body \o <<"</body>", "</html>">>

\* fix_nested_lists on a text, for either outcome of document.select
fix_nested_lists(text, outcome) ==
    IF outcome = "Err" THEN text
    ELSE document_to_string(apply_fixes(text))

\* variant: the fallback is the text the converter was given
conversion_fallback_fixed(original_html, fixed) == fixed

\* the Err arm of the match on converter.convert
conversion_fallback(original_html, fixed) == original_html

\* html.trim().is_empty(): the empty text is returned at once
ReturnEmpty ==
    /\ stage = "start"
    /\ trim(html) = <<>>
    /\ returned' = <<>>
    /\ stage' = "done"
    /\ UNCHANGED <<html, pre_wrapped, fixed_html, select_result, convert_result>>
    /\ UNCHANGED notConvertVars

WrapPre ==
    /\ stage = "start"
    /\ trim(html) # <<>>
    /\ pre_wrapped' = wrap_pre_with_code(html)
    /\ stage' = "wrapped"
    /\ UNCHANGED <<html, fixed_html, select_result, convert_result, returned>>
    /\ UNCHANGED notConvertVars

\* fix_nested_lists when document.select gives the list elements
FixLists ==
    /\ stage = "wrapped"
    /\ select_result' = "Ok"
    /\ fixed_html' = fix_nested_lists(pre_wrapped, "Ok")
    /\ stage' = "fixed"
    /\ UNCHANGED <<html, pre_wrapped, convert_result, returned>>
    /\ UNCHANGED notConvertVars

\* fix_nested_lists when document.select fails
FixListsSelectFails ==
    /\ stage = "wrapped"
    /\ select_result' = "Err"
    /\ fixed_html' = fix_nested_lists(pre_wrapped, "Err")
    /\ stage' = "fixed"
    /\ UNCHANGED <<html, pre_wrapped, convert_result, returned>>
    /\ UNCHANGED notConvertVars

\* converter.convert returns Ok(markdown)
ConvertOk ==
    /\ stage = "fixed"
    /\ \E converted \in ConverterOutputs :
          returned' = trim(replace_markdown_images(converted))
    /\ convert_result' = "Ok"
    /\ stage' = "done"
    /\ UNCHANGED <<html, pre_wrapped, fixed_html, select_result>>
    /\ UNCHANGED notConvertVars

\* converter.convert returns Err
ConvertErr ==
    /\ stage = "fixed"
    /\ returned' = conversion_fallback(html, fixed_html)
    /\ convert_result' = "Err"
    /\ stage' = "done"
    /\ UNCHANGED <<html, pre_wrapped, fixed_html, select_result>>
    /\ UNCHANGED notConvertVars

ConvertNext ==
    ReturnEmpty \/ WrapPre \/ FixLists \/ FixListsSelectFails \/ ConvertOk \/ ConvertErr

SpecConvert == ConvertInit /\ [][ConvertNext]_vars

\* C14: when converter.convert fails, html_to_markdown returns exactly the
\* hypertext it was given, and when document.select fails, fix_nested_lists
\* returns exactly the text it was given.
C14_FallbackToInput ==
    /\ (stage = "done" /\ convert_result = "Err") => returned = html
    /\ select_result = "Err" => fixed_html = pre_wrapped

\* C14 witness: both failures in one call on a hypertext that the
\* pre-normalisation changes, and a conversion failure after a repair.
C14_Witness ==
    /\ stage = "done"
    /\ convert_result = "Err"
    /\ \/ select_result = "Err" /\ pre_wrapped # html
       \/ select_result = "Ok" /\ fixed_html # document_to_string(pre_wrapped)

-----------------------------------------------------------------------------
(* The structural parser: parse_markdown_to_marked_lines.  The events of    *)
(* the markdown parser are the input; RULE and QUOTE_BAR stand for U+2500   *)
(* and U+2502.                                                              *)

MaxBlocks == 2      \* blocks one input document is put together from

NEWLINE == "\n"
RULE == "-"
QUOTE_BAR == "|"
DefaultRuleWidth == 80

\* Option<u16>
None == [some |-> FALSE, w |-> 0]
Some(w) == [some |-> TRUE, w |-> w]

\* ratatui Style: colours and modifiers
StyleDefault == [fg |-> "none", bg |-> "none", mods |-> {}]
Fg(style, colour) == [style EXCEPT !.fg = colour]
Bg(style, colour) == [style EXCEPT !.bg = colour]
add_modifier(style, m) == [style EXCEPT !.mods = @ \cup {m}]

\* Style::patch
patch(style, other) ==
    [fg |-> IF other.fg # "none" THEN other.fg ELSE style.fg,
     bg |-> IF other.bg # "none" THEN other.bg ELSE style.bg,
     mods |-> style.mods \cup other.mods]

\* variant: only the style on top of the stack is applied
accumulated_style_top_only(stack) ==
    IF stack = <<>> THEN StyleDefault ELSE stack[Len(stack)]

\* the loop that patches the styles of the emphasis stack, bottom first
RECURSIVE accumulated_style(_)
accumulated_style(stack) ==
    IF stack = <<>> THEN StyleDefault
    ELSE patch(accumulated_style(SubSeq(stack, 1, Len(stack) - 1)), stack[Len(stack)])

header_style(level) ==
    add_modifier(Fg(StyleDefault, CASE level = 1 -> "Cyan"
                                    [] level = 2 -> "Blue"
                                    [] level = 3 -> "Magenta"
                                    [] OTHER -> "Yellow"), "BOLD")

\* Span::raw in the parser
RawSpan(content) == Span(content, StyleDefault)

Digits == <<"0", "1", "2", "3", "4", "5", "6", "7", "8", "9">>

\* format!("{}", n) of an unsigned number
RECURSIVE to_string(_)
to_string(n) ==
    IF n < 10 THEN <<Digits[n + 1]>>
    ELSE to_string(n \div 10) \o <<Digits[(n % 10) + 1]>>

\* str::split('\n'): the pieces between the newlines, empty pieces included
RECURSIVE split_from(_, _)
split_from(text, piece) ==
    IF text = <<>> THEN <<piece>>
    ELSE IF Head(text) = NEWLINE THEN <<piece>> \o split_from(Tail(text), <<>>)
    ELSE split_from(Tail(text), Append(piece, Head(text)))

split(text) == split_from(text, <<>>)

\* the closure finish_line: the lines after it has run (the spans are drained)
finish_line(spans, lns, is_code) ==
    IF spans # <<>> THEN Append(lns, MarkdownLine(spans, is_code)) ELSE lns

\* the closure add_blank_line
add_blank_line(lns) == Append(lns, MarkdownLine(<<RawSpan(<<>>)>>, FALSE))

\* ListInfo
ListInfo(is_ordered, indent_level, next_number) ==
    [is_ordered |-> is_ordered, indent_level |-> indent_level, next_number |-> next_number]

\* the marker of a list item
item_marker(list_info) ==
    IF list_info.is_ordered
    THEN Rep(" ", list_info.indent_level) \o to_string(list_info.next_number) \o <<".", " ">>
    ELSE Rep(" ", list_info.indent_level) \o <<BULLET, " ">>

\* variant: only a text without a newline gives a line
emits_code_line_single_only(line_text, pieces) == pieces = 1

\* !line_text.is_empty() || (code_lines.len() == 1)
emits_code_line(line_text, pieces) == line_text # <<>> \/ pieces = 1

\* the content of a code line: padded to the width when one is given
code_line_content(line_text, w) ==
    IF w.some /\ Len(line_text) < w.w
    THEN line_text \o Rep(" ", w.w - Len(line_text))
    ELSE line_text

\* the loop over the pieces of a code text: the lines it pushes
RECURSIVE code_lines_from(_, _, _, _)
code_lines_from(rest, pieces, style, w) ==
    IF rest = <<>> THEN <<>>
    ELSE (IF emits_code_line(Head(rest), pieces)
          THEN <<MarkdownLine(<<Span(code_line_content(Head(rest), w), Bg(style, "Black"))>>,
                              TRUE)>>
          ELSE <<>>)
         \o code_lines_from(Tail(rest), pieces, style, w)

code_lines(text, style, w) == code_lines_from(split(text), Len(split(text)), style, w)

-----------------------------------------------------------------------------
(* The events of the markdown parser and the input documents *)

Event(kind, name) ==
    [kind |-> kind, tag |-> name, text |-> <<>>, ordered |-> FALSE, num |-> 0]

Start(name) == Event("Start", name)
End(name) == Event("End", name)
StartList(ordered, num) == [Start("List") EXCEPT !.ordered = ordered, !.num = num]
StartHeading(level) == [Start("Heading") EXCEPT !.num = level]
Text(text) == [Event("Text", "none") EXCEPT !.text = text]
Code(text) == [Event("Code", "none") EXCEPT !.text = text]
SoftBreak == Event("SoftBreak", "none")
HardBreak == Event("HardBreak", "none")
Rule == Event("Rule", "none")
FootnoteReference(name) == [Event("FootnoteReference", "none") EXCEPT !.text = name]
TaskListMarker(checked) == [Event("TaskListMarker", "none") EXCEPT !.ordered = checked]
Html == Event("Html", "none")

Within(name, inner) == <<Start(name)>> \o inner \o <<End(name)>>
Paragraph(inner) == Within("Paragraph", inner)
Item(inner) == Within("Item", inner)
List(ordered, num, items) == <<StartList(ordered, num)>> \o items \o <<End("List")>>
Heading(level, inner) == <<StartHeading(level)>> \o inner \o <<End("Heading")>>
Cell(text) == Within("TableCell", <<Text(text)>>)

\* the blocks a document is made of, as the markdown parser reports them
Blocks ==
    { Paragraph(<<Text(<<"p", "y">>)>>),
      Paragraph(<<Text(<<"p">>), SoftBreak, Text(<<"y">>), HardBreak,
                  FootnoteReference(<<"n">>)>>),
      Paragraph(Within("Emphasis", <<Text(<<"p">>)>> \o Within("Strong", <<Text(<<"y">>)>>))
                   \o <<Code(<<"z">>)>>),
      Paragraph(Within("Strikethrough", <<Text(<<"p">>)>>)
                   \o Within("Link", <<Text(<<"y">>)>>) \o <<Text(<<"z">>)>>),
      Paragraph(<<Text(<<"p">>)>> \o Within("Image", <<Text(<<"y">>)>>)),
      Paragraph(Within("Image", <<>>)),
      Paragraph(Within("Link", Within("Image", <<Text(<<"p">>)>>))),
      <<Html>>,
      Heading(1, <<Text(<<"p">>)>>),
      Heading(3, <<Text(<<"p">>), Code(<<"y">>)>>),
      Within("CodeBlock", <<Text(<<"p", " ", "y", " ", "z", "z", NEWLINE>>)>>),
      Within("CodeBlock", <<Text(<<"p", NEWLINE>>), Text(<<NEWLINE>>), Text(<<"y", NEWLINE>>)>>),
      Within("CodeBlock", <<Text(<<"p", NEWLINE, NEWLINE, "y", "y", "y", "y">>)>>),
      Within("CodeBlock", <<>>),
      <<Rule>>,
      Within("BlockQuote", Paragraph(<<Text(<<"p">>)>>)),
      List(FALSE, 0, Item(<<Text(<<"p">>)>>) \o Item(<<TaskListMarker(TRUE), Text(<<"y">>)>>)),
      List(TRUE, 9, Item(<<Text(<<"p">>)>>) \o Item(<<Text(<<"y">>)>>)),
      List(TRUE, 3, Item(<<Text(<<"p">>)>>
                           \o List(FALSE, 0, Item(<<Text(<<"y">>)>>)))
                       \o Item(<<Text(<<"z">>)>>)),
      List(TRUE, 1, Item(<<Text(<<"p">>)>>
                           \o List(TRUE, 1, Item(<<Text(<<"y">>)>>) \o Item(<<Text(<<"z">>)>>)))
                       \o Item(<<Text(<<"q">>)>>)),
      List(FALSE, 0, Item(Paragraph(<<Text(<<"p">>)>>)
                            \o List(FALSE, 0, Item(<<Text(<<"y">>)>>
                                  \o List(TRUE, 1, Item(<<Text(<<"z">>)>>)))))),
      List(FALSE, 0, Item(<<Text(<<"p">>), Rule, Text(<<"y">>)>>)),
      Within("Table",
             Within("TableHead", Cell(<<"p">>) \o Cell(<<"y">>))
                \o Within("TableRow", Cell(<<"z">>) \o Cell(<<"q">>))) }

Documents == {<<>>} \cup { Concat(bs) : bs \in SeqsUpTo(Blocks, MaxBlocks) }

ParseWidths == {None, Some(3), Some(MinWrapWidth)}

ParseInit ==
    /\ events \in Documents
    /\ parse_width \in ParseWidths
    /\ taken = 0
    /\ marked_lines = <<>>
    /\ current_line_spans = <<>>
    /\ in_code_block = FALSE
    /\ list_stack = <<>>
    /\ emphasis_stack = <<>>
    /\ link_destination = FALSE
    /\ parse_done = FALSE
    /\ WrapIdle
    /\ RepairIdle
    /\ ImagesIdle
    /\ ConvertIdle
    /\ AppIdle

-----------------------------------------------------------------------------
(* The for loop over the events *)

\* the event the loop takes next
event == events[taken + 1]

Takes(kind, tags) ==
    /\ ~parse_done
    /\ taken < Len(events)
    /\ event.kind = kind
    /\ event.tag \in tags

\* Vec::pop
pop(stack) == IF stack = <<>> THEN <<>> ELSE SubSeq(stack, 1, Len(stack) - 1)

\* the state after one iteration of the loop
Iteration(lns, spans, code, lists, emphasis, link) ==
    /\ taken' = taken + 1
    /\ marked_lines' = lns
    /\ current_line_spans' = spans
    /\ in_code_block' = code
    /\ list_stack' = lists
    /\ emphasis_stack' = emphasis
    /\ link_destination' = link
    /\ UNCHANGED <<events, parse_width, parse_done>>
    /\ UNCHANGED notParseVars

\* the style pushed for Emphasis, Strong and Strikethrough
emphasis_style(name) ==
    add_modifier(StyleDefault, CASE name = "Emphasis" -> "ITALIC"
                                 [] name = "Strong" -> "BOLD"
                                 [] OTHER -> "CROSSED_OUT")

\* arms that do nothing: Start of Paragraph, Table, TableHead, TableRow,
\* TableCell
OnStartNoOp ==
    /\ Takes("Start", {"Paragraph", "Table", "TableHead", "TableRow", "TableCell"})
    /\ Iteration(marked_lines, current_line_spans, in_code_block, list_stack,
                 emphasis_stack, link_destination)

OnStartHeading ==
    /\ Takes("Start", {"Heading"})
    /\ Iteration(marked_lines, current_line_spans, in_code_block, list_stack,
                 Append(emphasis_stack, header_style(event.num)), link_destination)

\* variant: every list has the indent of a list of depth one
indent_level_flat(lists) == 0

\* let indent_level = list_stack.len() * 2
indent_level(lists) == Len(lists) * 2

OnStartList ==
    /\ Takes("Start", {"List"})
    /\ Iteration(marked_lines, current_line_spans, in_code_block,
                 Append(list_stack,
                        ListInfo(event.ordered, indent_level(list_stack),
                                 IF event.ordered THEN event.num ELSE 1)),
                 emphasis_stack, link_destination)

\* variant: the number of the list is left as it is
after_item_same_number(lists) == lists

\* the list stack after the marker of an item has been made
after_item(lists) ==
    IF lists # <<>> /\ lists[Len(lists)].is_ordered
    THEN [lists EXCEPT ![Len(lists)].next_number = @ + 1]
    ELSE lists

OnStartItem ==
    /\ Takes("Start", {"Item"})
    /\ Iteration(finish_line(current_line_spans, marked_lines, FALSE),
                 IF list_stack # <<>>
                 THEN <<RawSpan(item_marker(list_stack[Len(list_stack)]))>>
                 ELSE <<>>,
                 in_code_block, after_item(list_stack), emphasis_stack, link_destination)

OnStartCodeBlock ==
    /\ Takes("Start", {"CodeBlock"})
    /\ Iteration(finish_line(current_line_spans, marked_lines, FALSE), <<>>,
                 TRUE, list_stack, emphasis_stack, link_destination)

OnStartEmphasis ==
    /\ Takes("Start", {"Emphasis", "Strong", "Strikethrough"})
    /\ Iteration(marked_lines, current_line_spans, in_code_block, list_stack,
                 Append(emphasis_stack, emphasis_style(event.tag)), link_destination)

OnStartLink ==
    /\ Takes("Start", {"Link"})
    /\ Iteration(marked_lines, current_line_spans, in_code_block, list_stack,
                 Append(emphasis_stack,
                        add_modifier(Fg(StyleDefault, "Blue"), "UNDERLINED")),
                 TRUE)

OnStartImage ==
    /\ Takes("Start", {"Image"})
    /\ Iteration(marked_lines, current_line_spans, in_code_block, list_stack,
                 emphasis_stack, TRUE)

OnStartBlockQuote ==
    /\ Takes("Start", {"BlockQuote"})
    /\ Iteration(marked_lines,
                 Append(current_line_spans,
                        Span(<<QUOTE_BAR, " ">>, Fg(StyleDefault, "Gray"))),
                 in_code_block, list_stack,
                 Append(emphasis_stack,
                        add_modifier(Fg(StyleDefault, "Gray"), "ITALIC")),
                 link_destination)

\* arms that do nothing: End of Item, Table, TableHead
OnEndNoOp ==
    /\ Takes("End", {"Item", "Table", "TableHead"})
    /\ Iteration(marked_lines, current_line_spans, in_code_block, list_stack,
                 emphasis_stack, link_destination)

OnEndParagraph ==
    /\ Takes("End", {"Paragraph"})
    /\ Iteration(add_blank_line(finish_line(current_line_spans, marked_lines, FALSE)),
                 <<>>, in_code_block, list_stack, emphasis_stack, link_destination)

OnEndHeading ==
    /\ Takes("End", {"Heading"})
    /\ Iteration(add_blank_line(finish_line(current_line_spans, marked_lines, FALSE)),
                 <<>>, in_code_block, list_stack, pop(emphasis_stack), link_destination)

OnEndList ==
    /\ Takes("End", {"List"})
    /\ Iteration(IF pop(list_stack) = <<>>
                 THEN add_blank_line(finish_line(current_line_spans, marked_lines, FALSE))
                 ELSE finish_line(current_line_spans, marked_lines, FALSE),
                 <<>>, in_code_block, pop(list_stack), emphasis_stack, link_destination)

OnEndCodeBlock ==
    /\ Takes("End", {"CodeBlock"})
    /\ Iteration(add_blank_line(marked_lines), current_line_spans, FALSE, list_stack,
                 emphasis_stack, link_destination)

OnEndEmphasis ==
    /\ Takes("End", {"Emphasis", "Strong", "Strikethrough"})
    /\ Iteration(marked_lines, current_line_spans, in_code_block, list_stack,
                 pop(emphasis_stack), link_destination)

OnEndLink ==
    /\ Takes("End", {"Link"})
    /\ Iteration(marked_lines, current_line_spans, in_code_block, list_stack,
                 pop(emphasis_stack), FALSE)

\* str::contains of one character
contains(content, ch) == \E i \in 1..Len(content) : content[i] = ch

\* the test that decides whether the [Image] run is pushed
needs_image_placeholder(spans, link) ==
    /\ link
    /\ \/ spans = <<>>
       \/ ~contains(spans[Len(spans)].content, "[")

OnEndImage ==
    /\ Takes("End", {"Image"})
    /\ Iteration(marked_lines,
                 IF needs_image_placeholder(current_line_spans, link_destination)
                 THEN Append(current_line_spans,
                             RawSpan(<<"[", "I", "m", "a", "g", "e", "]">>))
                 ELSE current_line_spans,
                 in_code_block, list_stack, emphasis_stack, FALSE)

OnEndBlockQuote ==
    /\ Takes("End", {"BlockQuote"})
    /\ Iteration(add_blank_line(finish_line(current_line_spans, marked_lines, FALSE)),
                 <<>>, in_code_block, list_stack, pop(emphasis_stack), link_destination)

OnEndTableRow ==
    /\ Takes("End", {"TableRow"})
    /\ Iteration(finish_line(current_line_spans, marked_lines, FALSE), <<>>,
                 in_code_block, list_stack, emphasis_stack, link_destination)

OnEndTableCell ==
    /\ Takes("End", {"TableCell"})
    /\ Iteration(marked_lines, Append(current_line_spans, RawSpan(<<" ", "|", " ">>)),
                 in_code_block, list_stack, emphasis_stack, link_destination)

\* link_destination.is_some() && matches!(emphasis_stack.last(), Some(_))
is_link_text(link, emphasis) == link /\ emphasis # <<>>

\* Text while a link destination is held inside a styled context
OnTextInLink ==
    /\ Takes("Text", {"none"})
    /\ is_link_text(link_destination, emphasis_stack)
    /\ Iteration(marked_lines,
                 Append(current_line_spans,
                        Span(event.text, accumulated_style(emphasis_stack))),
                 in_code_block, list_stack, emphasis_stack, link_destination)

\* Text while a code block is open: one line for every piece that is emitted
OnTextInCodeBlock ==
    /\ Takes("Text", {"none"})
    /\ ~is_link_text(link_destination, emphasis_stack)
    /\ in_code_block
    /\ Iteration(marked_lines
                    \o code_lines(event.text, accumulated_style(emphasis_stack), parse_width),
                 current_line_spans, in_code_block, list_stack, emphasis_stack,
                 link_destination)

OnText ==
    /\ Takes("Text", {"none"})
    /\ ~is_link_text(link_destination, emphasis_stack)
    /\ ~in_code_block
    /\ Iteration(marked_lines,
                 Append(current_line_spans,
                        Span(event.text, accumulated_style(emphasis_stack))),
                 in_code_block, list_stack, emphasis_stack, link_destination)

OnCode ==
    /\ Takes("Code", {"none"})
    /\ Iteration(marked_lines,
                 Append(current_line_spans,
                        Span(event.text, Bg(Fg(StyleDefault, "White"), "Black"))),
                 in_code_block, list_stack, emphasis_stack, link_destination)

OnSoftBreak ==
    /\ Takes("SoftBreak", {"none"})
    /\ Iteration(finish_line(current_line_spans, marked_lines, FALSE), <<>>,
                 in_code_block, list_stack, emphasis_stack, link_destination)

OnHardBreak ==
    /\ Takes("HardBreak", {"none"})
    /\ Iteration(finish_line(current_line_spans, marked_lines, FALSE), <<>>,
                 in_code_block, list_stack, emphasis_stack, link_destination)

\* width.unwrap_or(80)
rule_width(w) == IF w.some THEN w.w ELSE DefaultRuleWidth

OnRule ==
    /\ Takes("Rule", {"none"})
    /\ Iteration(Append(marked_lines,
                        MarkdownLine(<<Span(Rep(RULE, rule_width(parse_width)),
                                            Fg(StyleDefault, "Gray"))>>, FALSE)),
                 current_line_spans, in_code_block, list_stack, emphasis_stack,
                 link_destination)

OnFootnoteReference ==
    /\ Takes("FootnoteReference", {"none"})
    /\ Iteration(marked_lines,
                 Append(current_line_spans,
                        Span(<<"[", "^">> \o event.text \o <<"]">>, Fg(StyleDefault, "Blue"))),
                 in_code_block, list_stack, emphasis_stack, link_destination)

OnTaskListMarker ==
    /\ Takes("TaskListMarker", {"none"})
    /\ Iteration(marked_lines,
                 Append(current_line_spans,
                        RawSpan(IF event.ordered THEN <<"[", "x", "]", " ">>
                                ELSE <<"[", " ", "]", " ">>)),
                 in_code_block, list_stack, emphasis_stack, link_destination)

\* the arm for every other event
OnOtherEvent ==
    /\ Takes("Html", {"none"})
    /\ Iteration(marked_lines, current_line_spans, in_code_block, list_stack,
                 emphasis_stack, link_destination)

\* the end of the loop: the remaining content is finished and lines returned
ParseReturn ==
    /\ ~parse_done
    /\ taken = Len(events)
    /\ marked_lines' = finish_line(current_line_spans, marked_lines, FALSE)
    /\ current_line_spans' = <<>>
    /\ parse_done' = TRUE
    /\ UNCHANGED <<events, taken, parse_width, in_code_block, list_stack,
                   emphasis_stack, link_destination>>
    /\ UNCHANGED notParseVars

ParseNext ==
    \/ OnStartNoOp \/ OnStartHeading \/ OnStartList \/ OnStartItem \/ OnStartCodeBlock
    \/ OnStartEmphasis \/ OnStartLink \/ OnStartImage \/ OnStartBlockQuote
    \/ OnEndNoOp \/ OnEndParagraph \/ OnEndHeading \/ OnEndList \/ OnEndCodeBlock
    \/ OnEndEmphasis \/ OnEndLink \/ OnEndImage \/ OnEndBlockQuote
    \/ OnEndTableRow \/ OnEndTableCell
    \/ OnTextInLink \/ OnTextInCodeBlock \/ OnText \/ OnCode
    \/ OnSoftBreak \/ OnHardBreak \/ OnRule \/ OnFootnoteReference \/ OnTaskListMarker
    \/ OnOtherEvent
    \/ ParseReturn

SpecParse == ParseInit /\ [][ParseNext]_vars

-----------------------------------------------------------------------------
(* Claims on the structural parser *)

\* the lines of a code text: the pieces between the newlines, without the
\* empty piece after a final newline
CodeTextLines(text) ==
    LET pieces == split(text)
    IN  IF Len(pieces) > 1 /\ pieces[Len(pieces)] = <<>>
        THEN SubSeq(pieces, 1, Len(pieces) - 1)
        ELSE pieces

PaddedTo(line_text, w) ==
    IF w.some /\ Len(line_text) < w.w
    THEN line_text \o Rep(" ", w.w - Len(line_text))
    ELSE line_text

\* the text and the code flag of the lines pushed by the step
PushedLines ==
    [k \in 1..(Len(marked_lines') - Len(marked_lines)) |->
        LET l == marked_lines'[Len(marked_lines) + k]
        IN  <<LineText(l.spans), l.is_code_block>>]

\* C15: a Text event taken while a code block is open pushes one line with
\* is_code_block = true for every line of its text, blank lines included,
\* the empty piece after a final newline excluded; the text of the line is
\* the whole line, padded with spaces to the width when a width is given.
C15_CodeLinesEmitted ==
    [][ (~parse_done /\ taken < Len(events) /\ event.kind = "Text" /\ in_code_block)
            => PushedLines = [k \in 1..Len(CodeTextLines(event.text)) |->
                                 <<PaddedTo(CodeTextLines(event.text)[k], parse_width), TRUE>>]
      ]_vars

\* the letters the texts of the input documents are written with; no marker,
\* separator, rule or placeholder of the parser holds one of them
TextLetters == {"p", "y", "z", "q"}

Letters(text) == SelectSeq(text, LAMBDA ch : ch \in TextLetters)

\* the text of the Text and Code events among the first n events
RECURSIVE EventText(_)
EventText(n) ==
    IF n = 0 THEN <<>>
    ELSE EventText(n - 1)
            \o (IF events[n].kind \in {"Text", "Code"} THEN events[n].text ELSE <<>>)

\* the text of the lines, concatenated
RECURSIVE LinesText(_)
LinesText(lns) ==
    IF lns = <<>> THEN <<>> ELSE LineText(Head(lns).spans) \o LinesText(Tail(lns))

\* C19: when the parser has returned, the letters of the output lines,
\* concatenated, are exactly the letters of the Text and Code events, in the
\* order of the events: no text is lost, doubled or moved.
C19_TextKept ==
    parse_done => Letters(LinesText(marked_lines)) = Letters(EventText(Len(events)))

\* C19 witness: a document with an inline Code event and a code text of
\* several lines has been parsed into several lines.
C19_Witness ==
    /\ parse_done
    /\ \E i \in 1..Len(events) : events[i].kind = "Code"
    /\ \E i \in 1..Len(events) :
          events[i].kind = "Text" /\ Len(Letters(events[i].text)) > 1
             /\ contains(events[i].text, NEWLINE)
    /\ Len(marked_lines) > 3
    /\ Len(Letters(LinesText(marked_lines))) > 3

IsStart(e, name) == e.kind = "Start" /\ e.tag = name
IsEnd(e, name) == e.kind = "End" /\ e.tag = name

\* the Start(List) events that are open after the first n events, outermost
\* first, by their position in the events
RECURSIVE OpenLists(_)
OpenLists(n) ==
    IF n = 0 THEN <<>>
    ELSE IF IsStart(events[n], "List") THEN Append(OpenLists(n - 1), n)
    ELSE IF IsEnd(events[n], "List") THEN pop(OpenLists(n - 1))
    ELSE OpenLists(n - 1)

\* the list the item started by event i belongs to
ListOf(i) == OpenLists(i - 1)[Len(OpenLists(i - 1))]

\* the place of the item started by event i among the items of its list
Ordinal(i) ==
    Cardinality({m \in 1..i : /\ IsStart(events[m], "Item")
                              /\ OpenLists(m - 1) # <<>>
                              /\ ListOf(m) = ListOf(i)})

\* the marker the item started by event i is to get
ExpectedMarker(i) ==
    LET list == events[ListOf(i)]
        indent == Rep(" ", 2 * (Len(OpenLists(i - 1)) - 1))
    IN  IF list.ordered
        THEN indent \o to_string(list.num + Ordinal(i) - 1) \o <<".", " ">>
        ELSE indent \o <<BULLET, " ">>

\* C20: the start of an item finishes the line in progress and opens a new
\* one with the marker alone: the indent of 2 spaces for every enclosing open
\* list, then n + k - 1 and ". " for the k-th item of an ordered list that
\* starts at n, or the bullet and a space for an item of an unordered list.
C20_ItemMarker ==
    [][ (~parse_done /\ taken < Len(events) /\ IsStart(event, "Item"))
            => /\ current_line_spans' = <<RawSpan(ExpectedMarker(taken + 1))>>
               /\ marked_lines' = IF current_line_spans # <<>>
                                  THEN Append(marked_lines,
                                              MarkdownLine(current_line_spans, FALSE))
                                  ELSE marked_lines
      ]_vars

\* C20 witness: the second item of an ordered list has been started after a
\* nested list inside the first item was opened and closed, and it has its
\* marker.
C20_Witness ==
    /\ taken >= 1
    /\ IsStart(events[taken], "Item")
    /\ events[ListOf(taken)].ordered
    /\ Ordinal(taken) = 2
    /\ \E m \in (ListOf(taken) + 1)..taken : IsEnd(events[m], "List")
    /\ current_line_spans = <<RawSpan(ExpectedMarker(taken))>>

\* the number of the first n events that start (end) a tag of the name
Started(n, name) == Cardinality({m \in 1..n : IsStart(events[m], name)})
Ended(n, name) == Cardinality({m \in 1..n : IsEnd(events[m], name)})

\* C21: at every point of the parsing the depth of the list stack is the
\* number of list starts taken minus the number of list ends taken, the
\* frame at position k (counted from 0) has the indent 2 * k, and the stack
\* is empty when the events of the document have all been taken.
C21_ListStackDepth ==
    /\ Len(list_stack) = Started(taken, "List") - Ended(taken, "List")
    /\ \A k \in 1..Len(list_stack) : list_stack[k].indent_level = 2 * (k - 1)
    /\ taken = Len(events) => list_stack = <<>>

\* C21 witness: three lists are open, one inside the other, after another
\* list has been opened and closed.
C21_Witness ==
    /\ Len(list_stack) = 3
    /\ Ended(taken, "List") > 0
    /\ list_stack[3].indent_level = 4

\* the Start(Image) event that the End(Image) event i closes
RECURSIVE ImageStart(_)
ImageStart(i) == IF IsStart(events[i], "Image") THEN i ELSE ImageStart(i - 1)

\* alt text was captured for the image that event i ends: a Text or Code
\* event with text lies between its start and its end
AltCaptured(i) ==
    \E m \in ImageStart(i)..i : events[m].kind \in {"Text", "Code"} /\ events[m].text # <<>>

ImageRun == RawSpan(<<"[", "I", "m", "a", "g", "e", "]">>)

\* C22: the end of an image appends the run "[Image]" to the line in
\* progress when no alt text was captured between the start and the end of
\* the image, and appends nothing when alt text was captured.
C22_ImagePlaceholder ==
    [][ (~parse_done /\ taken < Len(events) /\ IsEnd(event, "Image"))
            => current_line_spans' = IF AltCaptured(taken + 1)
                                     THEN current_line_spans
                                     ELSE Append(current_line_spans, ImageRun)
      ]_vars

\* a line made of rule characters only
IsRuleLine(l) ==
    /\ LineText(l.spans) # <<>>
    /\ \A j \in 1..Len(LineText(l.spans)) : LineText(l.spans)[j] = RULE

\* the positions of the Rule events among the first n events, in order
RECURSIVE RuleEvents(_)
RuleEvents(n) ==
    IF n = 0 THEN <<>>
    ELSE IF events[n].kind = "Rule" THEN Append(RuleEvents(n - 1), n)
    ELSE RuleEvents(n - 1)

\* the positions of the rule lines among the first n lines, in order
RECURSIVE RuleLines(_)
RuleLines(n) ==
    IF n = 0 THEN <<>>
    ELSE IF IsRuleLine(marked_lines[n]) THEN Append(RuleLines(n - 1), n)
    ELSE RuleLines(n - 1)

\* C23: when the parser has returned, every Rule event has one line of its
\* own, made of as many rule characters as the width says (80 without a
\* width); the lines before it hold all the text of the events before the
\* Rule event and no text of a later event.
C23_RuleLinePlaced ==
    parse_done =>
        LET rules == RuleEvents(Len(events))
            rule_lines == RuleLines(Len(marked_lines))
        IN  /\ Len(rule_lines) = Len(rules)
            /\ \A k \in 1..Len(rule_lines) :
                  /\ Len(LineText(marked_lines[rule_lines[k]].spans)) = rule_width(parse_width)
                  /\ k <= Len(rules) =>
                        Letters(LinesText(SubSeq(marked_lines, 1, rule_lines[k] - 1)))
                            = Letters(EventText(rules[k] - 1))

RowTags == {"TableHead", "TableRow"}

\* the events that start a table row, the header row included
RowStarts == {m \in 1..Len(events) : events[m].kind = "Start" /\ events[m].tag \in RowTags}

\* the texts of the cells from event m to the end of the row, joined by " | "
RECURSIVE RowTextFrom(_, _)
RowTextFrom(m, cells) ==
    IF events[m].kind = "End" /\ events[m].tag \in RowTags THEN <<>>
    ELSE IF IsStart(events[m], "TableCell")
    THEN (IF cells > 0 THEN <<" ", "|", " ">> ELSE <<>>) \o RowTextFrom(m + 1, cells + 1)
    ELSE IF events[m].kind \in {"Text", "Code"} THEN events[m].text \o RowTextFrom(m + 1, cells)
    ELSE RowTextFrom(m + 1, cells)

RowText(m) == RowTextFrom(m + 1, 0)

StyleTags == {"Emphasis", "Strong", "Strikethrough", "Link", "Heading", "BlockQuote"}

\* the starts of the style tags that are open after the first n events,
\* in the order they were opened
RECURSIVE OpenStyleTags(_)
OpenStyleTags(n) ==
    IF n = 0 THEN <<>>
    ELSE IF events[n].kind = "Start" /\ events[n].tag \in StyleTags
    THEN Append(OpenStyleTags(n - 1), n)
    ELSE IF events[n].kind = "End" /\ events[n].tag \in StyleTags
    THEN pop(OpenStyleTags(n - 1))
    ELSE OpenStyleTags(n - 1)

\* the style that belongs to the tag of a start event
TagStyle(e) ==
    CASE e.tag = "Heading" -> header_style(e.num)
      [] e.tag = "Link" -> add_modifier(Fg(StyleDefault, "Blue"), "UNDERLINED")
      [] e.tag = "BlockQuote" -> add_modifier(Fg(StyleDefault, "Gray"), "ITALIC")
      [] OTHER -> emphasis_style(e.tag)

OpenStyles(n) == [k \in 1..Len(OpenStyleTags(n)) |-> TagStyle(events[OpenStyleTags(n)[k]])]

\* the styles composed one after the other, the first opened first
RECURSIVE Composed(_)
Composed(styles) ==
    IF styles = <<>> THEN StyleDefault
    ELSE patch(Composed(SubSeq(styles, 1, Len(styles) - 1)), styles[Len(styles)])

\* C27: a Text event outside a code block appends a run with the styles of
\* exactly the style tags open at the event, composed in the order of their
\* opening (a code text gets the background of code on top of it); after every
\* event the emphasis stack holds the styles of the open style tags, so each
\* end removes what its start pushed, and the stack is empty at the end of
\* the events.
C27_TextStyle ==
    [][ (~parse_done /\ taken < Len(events))
            => /\ (event.kind = "Text" /\ ~in_code_block)
                    => current_line_spans' =
                           Append(current_line_spans,
                                  Span(event.text, Composed(OpenStyles(taken))))
               /\ (event.kind = "Text" /\ in_code_block)
                    => \A l \in (Len(marked_lines) + 1)..Len(marked_lines') :
                           /\ Len(marked_lines'[l].spans) = 1
                           /\ marked_lines'[l].spans[1].style
                                  = Bg(Composed(OpenStyles(taken)), "Black")
               /\ emphasis_stack' = OpenStyles(taken + 1)
               /\ (taken + 1 = Len(events)) => emphasis_stack' = <<>>
      ]_vars

\* C27 witness: the parser has returned with an empty stack; its lines hold a
\* run that was inside Emphasis and Strong and a later run outside every tag.
C27_Witness ==
    /\ parse_done
    /\ emphasis_stack = <<>>
    /\ \E l1, l2 \in 1..Len(marked_lines) :
          /\ l1 < l2
          /\ \E j \in 1..Len(marked_lines[l1].spans) :
                marked_lines[l1].spans[j].style.mods = {"ITALIC", "BOLD"}
          /\ \E j \in 1..Len(marked_lines[l2].spans) :
                /\ marked_lines[l2].spans[j].content = <<"z">>
                /\ marked_lines[l2].spans[j].style = StyleDefault

-----------------------------------------------------------------------------
(* Further claims on the wrapping *)

\* the text holds a character that is not whitespace
HasWordChar(text) == \E j \in 1..Len(text) : ~is_whitespace(text[j])

\* C29: when a line that holds at least one word is wrapped at a width of at
\* least 10, every display line holds at least one word: none is empty and
\* none holds the indent or other whitespace only.
C29_NoWordlessLine ==
    (Wrapping /\ HasWordChar(LineText(CurLine.spans))) =>
        \A k \in DisplayLines : HasWordChar(DisplayText(k))

MaxIndentRuns == 3   \* StyleRuns in one indented input line

\* StyleRuns of lines with deep indents and with list markers of every kind
IndentRuns ==
    { SpanRaw(Rep(" ", 5)),
      SpanRaw(<<TAB, TAB>>),
      SpanRaw(<<BULLET, " ">>),
      SpanRaw(<<"-", " ">>),
      SpanRaw(<<"*", " ">>),
      SpanRaw(<<".", " ">>),
      SpanRaw(<<"1", "2", ".", " ">>),
      SpanRaw(<<"h", ".", " ">>),
      SpanRaw(<<"h", "h", " ", "i", "i", " ", "j", "j">>),
      Span(<<"7", "k">>, Bold) }

IndentedLines == { MarkdownLine(spans, FALSE) : spans \in SeqsUpTo(IndentRuns, MaxIndentRuns) }

IndentWidths == {MinWrapWidth, MinWrapWidth + 2}

\* wrap_markdown_lines called with one indented line
IndentInit ==
    /\ lines \in { <<l>> : l \in IndentedLines }
    /\ width \in IndentWidths
    /\ idx = 0
    /\ wrapped_lines = <<>>
    /\ wrapped = <<>>
    /\ RepairIdle
    /\ ImagesIdle
    /\ ConvertIdle
    /\ ParseIdle
    /\ AppIdle

SpecIndent == IndentInit /\ [][WrapNext]_vars

\* the number of ASCII digits a text starts with
RECURSIVE DigitPrefix(_)
DigitPrefix(text) ==
    IF text # <<>> /\ is_ascii_digit(Head(text)) THEN 1 + DigitPrefix(Tail(text)) ELSE 0

\* the columns of the list marker a text starts with, 0 when it starts with none
MarkerColumns(text) ==
    IF \E b \in {BULLET, "-", "*"} : starts_with(text, <<b, " ">>) THEN 2
    ELSE IF /\ DigitPrefix(text) >= 1
            /\ starts_with(SubSeq(text, DigitPrefix(text) + 1, Len(text)), <<".", " ">>)
    THEN DigitPrefix(text) + 2
    ELSE 0

\* C25: the continuation indent of a line is the number of its leading columns
\* (a space 1, a tab 4), plus 2 when the text behind them starts with a bullet
\* marker, plus the length of the digits and ". " when it starts with one or
\* more digits and ". ", and the leading columns alone for every other line.
C25_ContinuationIndent ==
    idx >= 1 =>
        CurIndent = LeadingIndent(LineText(CurLine.spans))
                        + MarkerColumns(trim_start(LineText(CurLine.spans)))

\* C26: when a line is wrapped at a width of at least 10 and its continuation
\* indent is at least the width, every display line after the first holds
\* exactly one word.
C26_OneWordPerLine ==
    (Wrapping /\ CurIndent >= width) =>
        \A k \in 2..Len(wrapped_lines) : Len(TextWords(DisplayText(k))) = 1

-----------------------------------------------------------------------------
(* The application around the pipeline (src/src/adapters/tui/app.rs): the   *)
(* main loop, the loading of task details and the cached lines of the two   *)
(* detail panes.  Of a task only the id and the description are kept, of a  *)
(* comment only the text; hypertext is text without markup.                 *)

NoDescriptionAvailable ==
    <<"N", "o", " ", "d", "e", "s", "c", "r", "i", "p", "t", "i", "o", "n", " ", "a",
      "v", "a", "i", "l", "a", "b", "l", "e">>

NoCommentsOrActivity ==
    <<"N", "o", " ", "c", "o", "m", "m", "e", "n", "t", "s", " ", "o", "r", " ", "a",
      "c", "t", "i", "v", "i", "t", "y">>

\* Option<String>, Option<Task>, Option<Vec<MarkdownLine>>
Absent == [some |-> FALSE]
Present(v) == [some |-> TRUE, v |-> v]

Task(id, description) == [id |-> id, description |-> description]

LongText == Rep("a", 4) \o <<" ">> \o Rep("b", 8) \o <<" ">> \o Rep("c", 6)

\* the descriptions and comment texts the fetch layer may supply
Descriptions == {Absent, Present(<<>>), Present(<<" ", " ">>), Present(LongText)}

CommentLists == {<<>>, <<[text |-> Present(LongText)]>>}

FrameWidths == {20, 30}

\* html_to_markdown on hypertext without markup: the converter returns the
\* text as it is, the image pass and the trim follow
html_to_markdown(text) ==
    IF trim(text) = <<>> THEN <<>>
    ELSE trim(replace_markdown_images(text))

\* parse_markdown_to_marked_lines on markdown without markup: one paragraph,
\* that is one line and the blank separator, and nothing for an empty text
parse_markdown_to_marked_lines(text) ==
    IF text = <<>> THEN <<>>
    ELSE <<MarkdownLine(<<SpanRaw(text)>>, FALSE), BlankLine>>

RECURSIVE wrap_lines_from(_, _, _)
wrap_lines_from(ls, i, w) ==
    IF i > Len(ls) THEN <<>>
    ELSE wrap_single_line(ls[i], w, line_continuation_indent(ls, i))
            \o wrap_lines_from(ls, i + 1, w)

wrap_markdown_lines(ls, w) == wrap_lines_from(ls, 1, w)

parse_markdown_to_marked_lines_with_wrapping(text, w) ==
    IF w.some THEN wrap_markdown_lines(parse_markdown_to_marked_lines(text), w.w)
    ELSE parse_markdown_to_marked_lines(text)

\* the task info section: the lines above the description
task_info_lines(task) ==
    <<MarkdownLine(<<Span(<<"S", "t", "a", "t", "u", "s", ":", " ">>, "cyan"),
                     SpanRaw(<<task.id>>)>>, FALSE)>>

\* the lines added for the description: "Add description if present"
description_part(description, w) ==
    IF description.some
    THEN IF trim(description.v) # <<>>
         THEN parse_markdown_to_marked_lines_with_wrapping(html_to_markdown(description.v),
                                                           Some(w))
         ELSE <<>>
    ELSE <<MarkdownLine(<<Span(NoDescriptionAvailable, "gray")>>, FALSE)>>

\* the lines render_description_content_only generates for a task in an
\* area of width w
description_lines(task, w) ==
    task_info_lines(task) \o <<BlankLine>> \o description_part(task.description, w)

\* the loop of format_comment_lines: lines without runs are skipped, runs
\* without a foreground colour become white
RECURSIVE white_if_unset(_)
white_if_unset(ls) ==
    IF ls = <<>> THEN <<>>
    ELSE (IF Head(ls).spans = <<>> THEN <<>>
          ELSE <<MarkdownLine([k \in 1..Len(Head(ls).spans) |->
                                  IF Head(ls).spans[k].style = DefaultStyle
                                  THEN Span(Head(ls).spans[k].content, "white")
                                  ELSE Head(ls).spans[k]],
                              Head(ls).is_code_block)>>)
         \o white_if_unset(Tail(ls))

format_comment_lines(text, max_width) ==
    white_if_unset(parse_markdown_to_marked_lines_with_wrapping(text, max_width))

\* the header and the text of each user comment
RECURSIVE user_comment_lines(_)
user_comment_lines(comments) ==
    IF comments = <<>> THEN <<>>
    ELSE <<MarkdownLine(<<Span(<<"a", "u", "t", "h", "o", "r">>, "blue")>>, FALSE)>>
            \o (IF Head(comments).text.some
                THEN format_comment_lines(html_to_markdown(Head(comments).text.v), None)
                ELSE <<>>)
            \o <<BlankLine>>
            \o user_comment_lines(Tail(comments))

\* the lines render_comments_content_only generates
comments_lines(comments) ==
    IF comments = <<>>
    THEN <<MarkdownLine(<<Span(NoCommentsOrActivity, "gray")>>, FALSE)>>
    ELSE <<MarkdownLine(<<Span(<<"C", "o", "m", "m", "e", "n", "t", "s">>, "green")>>, FALSE),
           BlankLine>>
            \o user_comment_lines(comments)

Panes == {"Search", "TaskList", "Description", "Comments"}

\* the tasks of the task list, as the list endpoint delivered them
TaskLists ==
    { <<Task("t1", d1), Task("t2", d2), Task("t3", Present(<<" ", " ">>))>> :
        d1 \in {Absent, Present(LongText)}, d2 \in {Present(<<>>), Present(LongText)} }

\* App::new and initialize, with a task list that loaded
AppInit ==
    /\ phase = "draw"
    /\ frame_width \in FrameWidths
    /\ filtered_tasks \in TaskLists
    /\ selected = 0
    /\ current_task = Absent
    /\ task_comments = <<>>
    /\ needs_task_reload = TRUE
    /\ focused_pane = "TaskList"
    /\ fullscreen_pane = "none"
    /\ cached_description_lines = Absent
    /\ cached_comments_lines = Absent
    /\ WrapIdle
    /\ RepairIdle
    /\ ImagesIdle
    /\ ConvertIdle
    /\ ParseIdle

\* task_list_state.selected().and_then(|i| filtered_tasks.get(i))
selected_task ==
    IF selected < Len(filtered_tasks) THEN Present(filtered_tasks[selected + 1]) ELSE Absent

\* the width of the right side of the layout (60 percent) inside its border
inner_width(w) == ((w * 60) \div 100) - 2

\* the task render_description_fullscreen hands to the content renderer
fullscreen_task == IF current_task.some THEN current_task ELSE selected_task

\* the panes of the normal layout show content for the loaded task only when
\* it is the selected one
shows_loaded_task ==
    /\ selected_task.some
    /\ current_task.some
    /\ current_task.v.id = selected_task.v.id

\* render_description_content_only: the lines are generated only when the
\* cache is empty
render_description_content_only(w, task) ==
    cached_description_lines' =
        IF cached_description_lines.some THEN cached_description_lines
        ELSE Present(description_lines(task, w))

\* render_comments_content_only
render_comments_content_only ==
    cached_comments_lines' =
        IF cached_comments_lines.some THEN cached_comments_lines
        ELSE Present(comments_lines(task_comments))

drawn == phase' = "event"

appState == <<frame_width, filtered_tasks, selected, current_task, task_comments,
              needs_task_reload, focused_pane, fullscreen_pane>>

\* render, the description pane in fullscreen
RenderDescriptionFullscreen ==
    /\ phase = "draw"
    /\ fullscreen_pane = "Description"
    /\ IF fullscreen_task.some
       THEN render_description_content_only(frame_width, fullscreen_task.v)
       ELSE UNCHANGED cached_description_lines
    /\ drawn
    /\ UNCHANGED <<appState, cached_comments_lines>>
    /\ UNCHANGED notAppVars

\* render, the comments pane in fullscreen
RenderCommentsFullscreen ==
    /\ phase = "draw"
    /\ fullscreen_pane = "Comments"
    /\ render_comments_content_only
    /\ drawn
    /\ UNCHANGED <<appState, cached_description_lines>>
    /\ UNCHANGED notAppVars

\* render, the task list in fullscreen
RenderTaskListFullscreen ==
    /\ phase = "draw"
    /\ fullscreen_pane = "TaskList"
    /\ drawn
    /\ UNCHANGED <<appState, cached_description_lines, cached_comments_lines>>
    /\ UNCHANGED notAppVars

\* render, the normal layout with the loaded task in both detail panes
RenderPanes ==
    /\ phase = "draw"
    /\ fullscreen_pane = "none"
    /\ shows_loaded_task
    /\ render_description_content_only(inner_width(frame_width), current_task.v)
    /\ render_comments_content_only
    /\ drawn
    /\ UNCHANGED appState
    /\ UNCHANGED notAppVars

\* render, the normal layout with the loading placeholders
RenderPlaceholders ==
    /\ phase = "draw"
    /\ fullscreen_pane = "none"
    /\ ~shows_loaded_task
    /\ drawn
    /\ UNCHANGED <<appState, cached_description_lines, cached_comments_lines>>
    /\ UNCHANGED notAppVars

\* load_task_details: the cached lines are cleared, then the task and its
\* comments are fetched; either fetch may fail
load_task_details(task_id) ==
    /\ cached_description_lines' = Absent
    /\ cached_comments_lines' = Absent
    /\ \/ \E d \in Descriptions : current_task' = Present(Task(task_id, d))
       \/ current_task' = Absent
    /\ \/ task_comments' \in CommentLists
       \/ task_comments' = <<>>

details_kept == UNCHANGED <<current_task, task_comments, cached_description_lines,
                            cached_comments_lines>>

handled == phase' = "auto_load"

\* an event that changes nothing here: a tick, a scroll key
OnTick ==
    /\ phase = "event"
    /\ handled
    /\ details_kept
    /\ UNCHANGED <<frame_width, filtered_tasks, selected, needs_task_reload, focused_pane,
                   fullscreen_pane>>
    /\ UNCHANGED notAppVars

\* the terminal is resized: the event arrives as a tick, the next frame has
\* the new width
OnResize ==
    /\ phase = "event"
    /\ frame_width' \in FrameWidths \ {frame_width}
    /\ handled
    /\ details_kept
    /\ UNCHANGED <<filtered_tasks, selected, needs_task_reload, focused_pane, fullscreen_pane>>
    /\ UNCHANGED notAppVars

focus_kept == UNCHANGED <<frame_width, filtered_tasks, selected, needs_task_reload,
                          fullscreen_pane>>

\* AppEvent::FocusSearch
OnFocusSearch ==
    /\ phase = "event"
    /\ focused_pane' = "Search"
    /\ handled
    /\ details_kept
    /\ focus_kept
    /\ UNCHANGED notAppVars

\* AppEvent::Tab
OnTab ==
    /\ phase = "event"
    /\ focused_pane' = CASE focused_pane = "Search" -> "TaskList"
                         [] focused_pane = "TaskList" -> "Description"
                         [] focused_pane = "Description" -> "Comments"
                         [] OTHER -> "TaskList"
    /\ handled
    /\ details_kept
    /\ focus_kept
    /\ UNCHANGED notAppVars

\* AppEvent::BackTab
OnBackTab ==
    /\ phase = "event"
    /\ focused_pane' = CASE focused_pane = "Search" -> "Comments"
                         [] focused_pane = "TaskList" -> "Comments"
                         [] focused_pane = "Description" -> "TaskList"
                         [] OTHER -> "Description"
    /\ handled
    /\ details_kept
    /\ focus_kept
    /\ UNCHANGED notAppVars

next_task ==
    IF selected >= Len(filtered_tasks) - 1 THEN 0 ELSE selected + 1

previous_task ==
    IF selected = 0 THEN Len(filtered_tasks) - 1 ELSE selected - 1

\* the arrow keys select in the task list and in the search, and scroll in
\* the detail panes
selects == focused_pane \in {"TaskList", "Search"} /\ filtered_tasks # <<>>

\* AppEvent::PreviousTask
OnPreviousTask ==
    /\ phase = "event"
    /\ IF selects
       THEN selected' = previous_task /\ needs_task_reload' = TRUE
       ELSE UNCHANGED <<selected, needs_task_reload>>
    /\ handled
    /\ details_kept
    /\ UNCHANGED <<frame_width, filtered_tasks, focused_pane, fullscreen_pane>>
    /\ UNCHANGED notAppVars

\* AppEvent::NextTask
OnNextTask ==
    /\ phase = "event"
    /\ IF selects
       THEN selected' = next_task /\ needs_task_reload' = TRUE
       ELSE UNCHANGED <<selected, needs_task_reload>>
    /\ handled
    /\ details_kept
    /\ UNCHANGED <<frame_width, filtered_tasks, focused_pane, fullscreen_pane>>
    /\ UNCHANGED notAppVars

\* AppEvent::Enter in the search: the focus goes to the task list
OnEnterSearch ==
    /\ phase = "event"
    /\ focused_pane = "Search"
    /\ focused_pane' = "TaskList"
    /\ handled
    /\ details_kept
    /\ focus_kept
    /\ UNCHANGED notAppVars

\* AppEvent::Enter in the task list: the focus goes to the description and
\* the details of the selected task are loaded
OnEnterTaskList ==
    /\ phase = "event"
    /\ focused_pane = "TaskList"
    /\ focused_pane' = "Description"
    /\ IF selected_task.some THEN load_task_details(selected_task.v.id) ELSE details_kept
    /\ handled
    /\ UNCHANGED <<frame_width, filtered_tasks, selected, needs_task_reload, fullscreen_pane>>
    /\ UNCHANGED notAppVars

\* AppEvent::Character('f') outside the search
OnToggleFullscreen ==
    /\ phase = "event"
    /\ focused_pane # "Search"
    /\ fullscreen_pane' = IF fullscreen_pane = focused_pane THEN "none" ELSE focused_pane
    /\ handled
    /\ details_kept
    /\ UNCHANGED <<frame_width, filtered_tasks, selected, needs_task_reload, focused_pane>>
    /\ UNCHANGED notAppVars

\* auto_load_selected_task: the details are loaded when the selection moved
\* to a task other than the loaded one
AutoLoadSelectedTask ==
    /\ phase = "auto_load"
    /\ phase' = "draw"
    /\ needs_task_reload' = FALSE
    /\ IF /\ needs_task_reload
          /\ selected_task.some
          /\ (current_task.some => current_task.v.id # selected_task.v.id)
       THEN load_task_details(selected_task.v.id)
       ELSE details_kept
    /\ UNCHANGED <<frame_width, filtered_tasks, selected, focused_pane, fullscreen_pane>>
    /\ UNCHANGED notAppVars

AppNext ==
    \/ RenderDescriptionFullscreen
    \/ RenderCommentsFullscreen
    \/ RenderTaskListFullscreen
    \/ RenderPanes
    \/ RenderPlaceholders
    \/ OnTick
    \/ OnResize
    \/ OnEnterSearch
    \/ OnFocusSearch
    \/ OnTab
    \/ OnBackTab
    \/ OnNextTask
    \/ OnPreviousTask
    \/ OnEnterTaskList
    \/ OnToggleFullscreen
    \/ AutoLoadSelectedTask

SpecApp == AppInit /\ [][AppNext]_vars

-----------------------------------------------------------------------------
(* Claims about the description pane and the cached lines *)

PlaceholderLine == MarkdownLine(<<Span(NoDescriptionAvailable, "gray")>>, FALSE)

HasLine(ls, l) == \E i \in 1..Len(ls) : ls[i] = l

\* absent, empty or whitespace-only
IsBlank(description) == ~description.some \/ trim(description.v) = <<>>

\* the task whose description the frame of this state shows, if it shows one
rendered_task ==
    CASE fullscreen_pane = "Description" -> fullscreen_task
      [] fullscreen_pane = "none" /\ shows_loaded_task -> current_task
      [] OTHER -> Absent

\* the width of the area the description is drawn in
description_width ==
    IF fullscreen_pane = "Description" THEN frame_width ELSE inner_width(frame_width)

comments_rendered ==
    \/ fullscreen_pane = "Comments"
    \/ fullscreen_pane = "none" /\ shows_loaded_task

\* C17: when the description of the task shown is absent, empty or
\* whitespace-only, the lines generated for the description pane contain the
\* line "No description available".
C17_PlaceholderForBlank ==
    [][(/\ phase = "draw"
        /\ rendered_task.some
        /\ ~cached_description_lines.some
        /\ cached_description_lines'.some
        /\ IsBlank(rendered_task.v.description))
          => HasLine(cached_description_lines'.v, PlaceholderLine)]_vars

\* C18: after a frame is drawn, the cached description lines it shows are the
\* lines of the shown task at the width of the description area, and the
\* cached comment lines it shows are the lines of the loaded comments.
C18_CacheCurrent ==
    phase = "event" =>
        /\ rendered_task.some =>
              cached_description_lines =
                  Present(description_lines(rendered_task.v, description_width))
        /\ comments_rendered =>
              cached_comments_lines = Present(comments_lines(task_comments))

-----------------------------------------------------------------------------
(* Termination of the image pass and of the backward walk of the repair.    *)
(* Both are sequential loops that nothing can suspend: a step that can be   *)
(* taken is taken.                                                          *)

TerminationInit == ImagesInit \/ RepairInit

TerminationNext == ImagesNext \/ RepairNext

SpecTermination ==
    /\ TerminationInit
    /\ [][TerminationNext]_vars
    /\ WF_vars(ImagesNext)
    /\ WF_vars(RepairNext)

\* the image pass has left its loop with the text it returns
ImagesReturned ==
    chars >= Len(markdown) /\ result = replace_markdown_images(markdown)

\* the selector loop, the backward walks it makes included, is to be run
Collecting == pc = "start"

\* the selector loop has been left with the fixes it found
Collected == pc = "apply"

====
